---------------------------- MODULE Spec2Model ----------------------------
(***************************************************************************)
(* SIMBAD trial scheduling: the rotation stage (AmoreRotationSearch.run    *)
(* with its callback rot_succeeded_log) and the replacement stage          *)
(* (MrSubmit.submit_jobs with its callback mr_succeeded_log), the          *)
(* per-trial command sequences both stages generate, and the success       *)
(* predicates.                                                             *)
(*                                                                         *)
(* Numbers: Z-scores, LLG and TFZ are integers; R-factors are hundredths   *)
(* (45 stands for 0.45).  An optional value (Python's None, an absent      *)
(* file) is the empty sequence <<>>, a present value v is <<v>>.           *)
(* A directory is a sequence of path components.                           *)
(***************************************************************************)
EXTENDS Integers, Sequences, FiniteSets, TLC

(* ------------------------------ bounds -------------------------------- *)
\* Largest number of candidates in a worklist.
MaxFiles == 3
\* Largest effective chunk size (the value run() holds after line 243).
MaxChunk == 2
\* Largest number of candidates handed to MrSubmit.submit_jobs.
MaxJobs == 2
\* The largest max_to_keep tried.
MaxKeep == 3
\* The number of times the results of a finished stage are summarized.
MaxReads == 2
\* The largest move of a cell parameter, in hundredths.
MaxShift == 2
\* The largest penalty handed to calculate_probability, in quarters.
MaxQuarters == 60
\* The most rows of a table handed to mr_succeeded_csvfile.
MaxRows == 2

(* ------------------------- program constants -------------------------- *)
\* amore_search.py:452  amore_z_score > 10
RotZThreshold == 10
\* mr/__init__.py:687 and 692  r_fact < 0.45 and r_free < 0.45 (hundredths)
RThreshold == 45
\* mr/__init__.py:697  llg > 120
LlgThreshold == 120
\* mr/__init__.py:697  tfz > 8
TfzThreshold == 8
\* run: the default of min_solvent_content, in per cent.
MinSolventContent == 20
\* The calls of run() made on one AmoreRotationSearch object.
MaxRuns == 2

(* ------------------------------ helpers ------------------------------- *)
None == <<>>
Some(v) == <<v>>
IsSome(o) == o # <<>>
Min(a, b) == IF a < b THEN a ELSE b

\* Python truthiness of an optional number: None and 0 are false.
Truthy(o) == IsSome(o) /\ o[1] # 0

\* Python's s[i:j] for 0 <= i <= j (0-based, end exclusive, clamped to len(s)).
Slice(s, i, j) == SubSeq(s, i + 1, Min(j, Len(s)))

RECURSIVE Flatten(_)
Flatten(ss) == IF ss = <<>> THEN <<>> ELSE Head(ss) \o Flatten(Tail(ss))

Range(s) == {s[k] : k \in 1..Len(s)}

(* --------------------------- value domains ---------------------------- *)
Cands == 1..MaxFiles
\* Primary Z-scores (CC_F_Z_score) a parsed rotation log can hold.
ZScores == {0, RotZThreshold, RotZThreshold + 1}
\* What a rotation trial leaves behind: no log, or a log whose primary
\* Z-score is undefined (None) or a number.
RotLogs == {None} \cup {Some(None)} \cup {Some(Some(z)) : z \in ZScores}

\* The files one replacement trial leaves behind, with the parsed metrics.
MrFiles(ml, rl, po, rfa, rfr, llg, tfz) ==
    [mr_log |-> ml, ref_log |-> rl, pdbout |-> po,
     final_r_fact |-> rfa, final_r_free |-> rfr, llg |-> llg, tfz |-> tfz]
NoMrFiles == MrFiles(FALSE, FALSE, FALSE, 0, 0, 0, 0)
\* Representative outcomes used by the schedulers.
MrOutcomes ==
    { NoMrFiles,
      \* placement good, refinement never wrote its log
      MrFiles(TRUE, FALSE, TRUE, 0, 0, LlgThreshold + 1, TfzThreshold + 1),
      \* refinement good, placement metrics at their thresholds
      MrFiles(TRUE, TRUE, TRUE, RThreshold - 1, RThreshold - 1, LlgThreshold, TfzThreshold),
      \* refinement at its threshold, placement good
      MrFiles(TRUE, TRUE, TRUE, RThreshold, RThreshold - 1, LlgThreshold + 1, TfzThreshold + 1),
      \* nothing good
      MrFiles(TRUE, TRUE, TRUE, RThreshold - 1, RThreshold, LlgThreshold + 1, TfzThreshold) }

(* ------------------------- success predicates ------------------------- *)
\* AmoreRotationSearch._rot_job_succeeded; None > 10 is False (Python 2).
RotJobSucceededGe(amore_z_score) == IsSome(amore_z_score) /\ amore_z_score[1] >= RotZThreshold
_rot_job_succeeded(amore_z_score) == IsSome(amore_z_score) /\ amore_z_score[1] > RotZThreshold

_mr_job_succeeded(r_fact, r_free) == r_fact < RThreshold /\ r_free < RThreshold

_refinement_succeeded(r_fact, r_free) == r_fact < RThreshold /\ r_free < RThreshold

_phaser_succeeded(llg, tfz) == llg > LlgThreshold /\ tfz > TfzThreshold

\* mr_succeeded_log on the files of one trial: the refinement log decides.
mr_succeeded_log(f) ==
    IF f.ref_log THEN _mr_job_succeeded(f.final_r_fact, f.final_r_free) ELSE FALSE


(* ---------------------- per-trial command sequences ------------------- *)
\* One command step of a script.  val is the directory an export assigns
\* to CCP4_SCR and <<>> for every other step.
Step(op, val) == [op |-> op, val |-> val]
Export(dir) == Step("export CCP4_SCR", dir)
\* Steps that invoke an external engine.
EngineOps == {"ccp4-python convert_dat_to_pdb", "amore tabfun", "amore rotfun",
              "ccp4-python mr", "ccp4-python refine", "fft"}

\* AmoreRotationSearch.run, lines 198-202, and generate_script, line 354:
\* template_tmp_dir is one directory of the run (under self.tmp_dir when
\* it is set, under work_dir/tmp otherwise) with a "-{0}" suffix, and
\* format(pdb_code) puts the candidate's code there.
RotTmpDir(pdb_code) == <<"tmp", "simbad-tmp-uuid", pdb_code>>

\* AmoreRotationSearch.generate_script, the cmd list of lines 358-374.
RotCmdNoRestore(ccp4_scr_, pdb_code) ==
    << Step("source", <<>>),
       Export(RotTmpDir(pdb_code)),
       Step("mkdir -p $CCP4_SCR", <<>>),
       Step("ccp4-python convert_dat_to_pdb", <<>>),
       Step("amore tabfun", <<>>),
       Step("stdin", <<>>),
       Step("eof", <<>>),
       Step("linesep", <<>>),
       Step("amore rotfun", <<>>),
       Step("stdin", <<>>),
       Step("eof", <<>>),
       Step("linesep", <<>>),
       Step("grep SOLUTIONRCD", <<>>),
       Step("rm -rf $CCP4_SCR", <<>>) >>
RotCmd(ccp4_scr_, pdb_code) ==
    << Step("source", <<>>),
       Export(RotTmpDir(pdb_code)),
       Step("mkdir -p $CCP4_SCR", <<>>),
       Step("ccp4-python convert_dat_to_pdb", <<>>),
       Step("amore tabfun", <<>>),
       Step("stdin", <<>>),
       Step("eof", <<>>),
       Step("linesep", <<>>),
       Step("amore rotfun", <<>>),
       Step("stdin", <<>>),
       Step("eof", <<>>),
       Step("linesep", <<>>),
       Step("grep SOLUTIONRCD", <<>>),
       Step("rm -rf $CCP4_SCR", <<>>),
       Export(ccp4_scr_) >>

\* MrSubmit.generate_script, lines 524-527: the same directory for every
\* candidate (self.tmp_dir, or self.output_dir when it is unset).
MrTmpDir(pdb_code) == <<"tmp">>

\* MrSubmit.generate_script, the cmd list of lines 531-539.
MrCmd(ccp4_scr_, pdb_code) ==
    << Step("source", <<>>),
       Export(MrTmpDir(pdb_code)),
       Step("ccp4-python mr", <<>>),
       Step("ccp4-python refine", <<>>),
       Step("fft", <<>>),
       Step("fft", <<>>),
       Export(ccp4_scr_) >>

\* The Script object a generate_script returns (prefix, stem, commands).
Script(prefix, stem, cmds) == [prefix |-> prefix, stem |-> stem, cmds |-> cmds]

\* What a shell running the first k steps of a script does to its own
\* CCP4_SCR, starting from the value scr it inherited.
RECURSIVE RunSteps(_, _, _)
RunSteps(cmds, k, scr) ==
    IF k = 0 THEN scr
    ELSE LET before == RunSteps(cmds, k - 1, scr)
         IN IF cmds[k].op = "export CCP4_SCR" THEN cmds[k].val ELSE before

\* The directory a script redirects CCP4_SCR to before its first engine step.
ScratchOf(cmds) ==
    LET engines == {k \in 1..Len(cmds) : cmds[k].op \in EngineOps}
        first == CHOOSE k \in engines : \A m \in engines : k <= m
    IN RunSteps(cmds, first - 1, <<"inherited">>)


(* ------------------------------ ranking ------------------------------- *)
\* One element to sort, with the key the key function gave for it.
Keyed(key, item) == [key |-> key, item |-> item]

\* The place of p in a list sorted so far: behind every element that does
\* not sort after it, so that equal keys keep their order.
RECURSIVE InsertKeyed(_, _, _)
InsertKeyed(sorted, p, reverse) ==
    IF sorted = <<>> THEN <<p>>
    ELSE LET h == Head(sorted)
             p_first == IF reverse THEN p.key > h.key ELSE p.key < h.key
         IN IF p_first THEN <<p>> \o sorted
            ELSE <<h>> \o InsertKeyed(Tail(sorted), p, reverse)

\* Python's sorted(ps, key=..., reverse=...): a stable sort, also when
\* reverse is set (equal elements keep their original order).
SortedAscThenReversed(ps, reverse) ==
    LET RECURSIVE Asc(_)
        Asc(qs) == IF qs = <<>> THEN <<>>
                   ELSE InsertKeyed(Asc(SubSeq(qs, 1, Len(qs) - 1)), qs[Len(qs)], FALSE)
        asc == Asc(ps)
    IN IF reverse THEN [k \in 1..Len(asc) |-> asc[Len(asc) + 1 - k]] ELSE asc
RECURSIVE sorted(_, _)
sorted(ps, reverse) ==
    IF ps = <<>> THEN <<>>
    ELSE InsertKeyed(sorted(SubSeq(ps, 1, Len(ps) - 1), reverse), ps[Len(ps)], reverse)

\* The items of a keyed list, in order.
Items(ps) == [k \in 1..Len(ps) |-> ps[k].item]

(* --------------------------- engine names ------------------------------ *)
\* The names a caller may pass for an engine.
MrNames == {"molrep", "phaser", "PHASER", "bogus"}
RefNames == {"refmac5", "REFMAC5", "bogus"}
\* str.lower() on these names.
Lower(name) ==
    CASE name = "PHASER" -> "phaser"
      [] name = "REFMAC5" -> "refmac5"
      [] OTHER -> name
\* MrPrograms.__members__ and RefPrograms.__members__ (simbad.mr.options).
MrProgramsMembers == {"molrep", "phaser"}
RefProgramsMembers == {"refmac5"}

\* The mr_program setter, lines 178-185: what it stores, or that it raises.
MrProgramSetterAsGiven(name) ==
    IF Lower(name) \in MrProgramsMembers
    THEN [raised |-> FALSE, value |-> name]
    ELSE [raised |-> TRUE, value |-> "None"]
mr_program_setter(name) ==
    IF Lower(name) \in MrProgramsMembers
    THEN [raised |-> FALSE, value |-> Lower(name)]
    ELSE [raised |-> TRUE, value |-> "None"]
\* The refine_program setter, lines 197-204.
refine_program_setter(name) ==
    IF Lower(name) \in RefProgramsMembers
    THEN [raised |-> FALSE, value |-> name]
    ELSE [raised |-> TRUE, value |-> "None"]
\* refine_python_module, lines 187-190: RefPrograms[self.refine_program]
\* raises KeyError for a name that is no member.
refine_python_module(name) == [raised |-> name \notin RefProgramsMembers]
\* generate_script, lines 505-506: the refinement_type flag is added to the
\* refinement command when the stored name equals "refmac5".
AddsRefinementType(name) == name = "refmac5"

(* ----------------------------- catalogue ------------------------------- *)
\* One catalogue entry as run() meets it: what calculate_from_struct does
\* for it (err is "none" when it returns solvent_content) and its mw_diff.
DatFile(name, err, solvent_content, mw_diff) ==
    [name |-> name, err |-> err, solvent_content |-> solvent_content, mw_diff |-> mw_diff]

\* run, lines 215-232: the entries kept for the worklist.
KeptUnlessLow(f, min_solvent_content) ==
    f.err # "none" \/ ~(f.solvent_content < min_solvent_content)
Kept(f, min_solvent_content) ==
    f.err = "none" /\ ~(f.solvent_content < min_solvent_content)

\* run, lines 214-241: dat_models in catalogue order, then sorted by mw_diff.
RECURSIVE DatModels(_, _)
DatModels(files, min_solvent_content) ==
    IF files = <<>> THEN <<>>
    ELSE LET f == Head(files)
         IN (IF Kept(f, min_solvent_content) THEN <<Keyed(f.mw_diff, f.name)>> ELSE <<>>)
            \o DatModels(Tail(files), min_solvent_content)
SortedDatModelsDescending(files, min_solvent_content) ==
    Items(sorted(DatModels(files, min_solvent_content), TRUE))
sorted_dat_models(files, min_solvent_content) ==
    Items(sorted(DatModels(files, min_solvent_content), FALSE))


(* ------------------------------- state -------------------------------- *)
VARIABLES
    stage,         \* "rot": AmoreRotationSearch.run; "mr": MrSubmit.submit_jobs
    process_all,   \* self.process_all (run) / the process_all argument (submit_jobs)
    skip_mr,       \* self.skip_mr
    mr_program,    \* self.mr_program
    chunk_size,    \* the chunk size run() holds after line 243
    candidates,    \* run: sorted_dat_models; submit_jobs: the results argument
    environ,       \* the scheduler process's os.environ["CCP4_SCR"]
    ccp4_scr,      \* the value read from os.environ["CCP4_SCR"]
    pc,            \* where the scheduler is
    cycle_i,       \* run: the loop variable i of line 253
    solution,      \* self.solution
    tested,        \* self.tested
    results,       \* run: results; submit_jobs: mr_results
    search_results,\* self._search_results
    collector,     \* the scripts of the batch in flight, in submission order
    success_func,  \* the callback handed to submit_chunk
    status,        \* per candidate: the state of its trial in the batch
    log,           \* per candidate: the script log of its trial (rotation: with the parsed Z-score)
    mr_files,      \* per candidate: the files of its replacement run
    called,        \* per candidate: the callback ran on its log in this batch
    cancel,        \* the callback returned True: cancellation was requested
    trial_scr,     \* per candidate: CCP4_SCR in the trial's own shell when it ended
    dispatched,    \* history: the chunks submitted so far
    late,          \* history: the trials that finished after cancellation was requested
    succeeded,     \* history: the trials for whose log the callback returned True
    followups,     \* history: the candidates for which the callback started a replacement run, in order
    args,          \* MrSubmit.__init__: the mr_program and refine_program arguments
    refine_program,\* self._refine_program
    max_to_keep,   \* self.max_to_keep
    simbad_dat_files, \* run: self.simbad_dat_files, the catalogue entries in order
    malformed,     \* per candidate: its refinement log lacks the expected fields
    unreadable,    \* per candidate: its refinement log exists and cannot be read
    table,         \* the values summarize() was handed by search_results, in order
    call,          \* a function called on its own: its name and arguments
    ret,           \* what the calls made so far returned, in order
    main_pc,       \* simbad_main.main: where the routine is
    main_args,     \* simbad_main.main: args.work_dir, args.run_dir (as the file system has them), args.ccp4_jobid
    solution_found,\* simbad_main.main: solution_found
    end_of_cycle,  \* simbad_main.main: end_of_cycle
    started,       \* history: the search stages main() started, in order, with what each reported
    mtz_labels,    \* MrSubmit: self.mtz_labels, of which dano, iplus and fplus are read
    anode,         \* per candidate: how the anomalous-difference search on its model ends
    run_no         \* history: the number of the call of run() on this object

config == <<stage, process_all, skip_mr, mr_program, chunk_size, candidates>>
sched == <<pc, cycle_i, ccp4_scr, solution, tested, results, search_results>>
batch == <<collector, success_func, status, log, mr_files, called, cancel, trial_scr>>
hist == <<dispatched, late, succeeded, followups>>
calls == <<call, ret>>
mainv == <<main_pc, main_args, solution_found, end_of_cycle, started>>
later == <<mtz_labels, anode, run_no>>
apart == <<calls, mainv, later>>
aggr == <<args, refine_program, max_to_keep, simbad_dat_files, malformed, unreadable, table,
          apart>>
vars == <<config, environ, sched, batch, hist, aggr>>

\* No function is called on its own; main() is not running.
NoCall ==
    /\ call = <<>>
    /\ ret = <<>>
NoMain ==
    /\ main_pc = "none"
    /\ main_args = <<>>
    /\ solution_found = FALSE
    /\ end_of_cycle = FALSE
    /\ started = <<>>
Apart == NoCall /\ NoMain
\* The reflection file holds no anomalous columns, so that no
\* anomalous-difference search is run; run() is called for the first time.
NoLabels == [dano |-> FALSE, iplus |-> FALSE, fplus |-> FALSE]
NoLater ==
    /\ mtz_labels = NoLabels
    /\ anode = [c \in Cands |-> "ok"]
    /\ run_no = 1

n_files == Len(candidates)
\* The value CCP4_SCR has in the scheduler's environment.
OriginalScr == <<"ccp4_scr">>

\* The candidates of the batch in flight.
InBatch == {collector[k].stem : k \in 1..Len(collector)}
ScriptFor(c) == CHOOSE sc \in Range(collector) : sc.stem = c

InitStage ==
    /\ stage \in {"rot", "mr"}
    /\ process_all \in BOOLEAN
    /\ skip_mr \in (IF stage = "rot" THEN BOOLEAN ELSE {FALSE})
    \* The rotation stage reads mr_program in its callback only, which
    \* returns at once when skip_mr or process_all is set.
    /\ mr_program \in (IF stage = "rot" /\ (skip_mr \/ process_all)
                       THEN {"phaser"} ELSE {"molrep", "phaser"})
    \* The rotation stage builds its worklist in run() from the catalogue;
    \* the replacement stage is handed its candidates.
    /\ \E n \in 0..(IF stage = "rot" THEN MaxFiles ELSE MaxJobs) :
          IF stage = "rot"
          THEN /\ candidates = <<>>
               /\ simbad_dat_files = [k \in 1..n |-> DatFile(k, "none", MinSolventContent, k)]
          ELSE /\ candidates = [k \in 1..n |-> k]
               /\ simbad_dat_files = <<>>
    /\ chunk_size \in (IF stage = "rot" THEN 1..MaxChunk ELSE {1})
    /\ environ = OriginalScr
    /\ ccp4_scr = None
    /\ pc = "Start"
    /\ cycle_i = 0
    /\ solution = FALSE
    /\ tested = <<>>
    /\ results = <<>>
    /\ search_results = <<>>
    /\ collector = <<>>
    /\ success_func = "None"
    /\ status = [c \in Cands |-> "none"]
    /\ log = [c \in Cands |-> None]
    \* The replacement stage may find the files of an earlier run in its
    \* output directory; the rotation stage's mr_search directory is new.
    /\ \E pre \in SUBSET Range(candidates) :
          /\ stage = "rot" => pre = {}
          /\ mr_files = [c \in Cands |->
                IF c \in pre
                THEN MrFiles(TRUE, TRUE, TRUE, RThreshold - 1, RThreshold - 1,
                             LlgThreshold, TfzThreshold)
                ELSE NoMrFiles]
    /\ called = [c \in Cands |-> FALSE]
    /\ cancel = FALSE
    /\ trial_scr = [c \in Cands |-> None]
    /\ dispatched = <<>>
    /\ late = {}
    /\ succeeded = {}
    /\ followups = <<>>
    /\ args = [mr_program |-> mr_program, refine_program |-> "refmac5"]
    /\ refine_program = "refmac5"
    /\ max_to_keep = MaxKeep
    /\ malformed = {}
    /\ unreadable = {}
    /\ table = <<>>
    /\ Apart

Init == InitStage /\ NoLater

(* ------------------- AmoreRotationSearch.run: chunks ------------------ *)
\* Line 252: range(0, n_files, chunk_size), as the sequence of its values.
iteration_range ==
    [k \in 1..((n_files + chunk_size - 1) \div chunk_size) |-> (k - 1) * chunk_size]

\* Line 265: sorted_dat_models[i : i + chunk_size].
ChunkAtShort(i) == Slice(candidates, i, i + chunk_size - 1)
ChunkAt(i) == Slice(candidates, i, i + chunk_size)

\* generate_script of either stage leaves os.environ as it is: line 197 and
\* mr line 523 only read it.
EnvironSetByGenerate(env, cmds) == ScratchOf(cmds)
EnvironAfterGenerate(env, cmds) == env

\* AmoreRotationSearch.generate_script, lines 318-381.
RotGenerateScript(c) == Script("amore_", c, RotCmd(ccp4_scr, c))
\* MrSubmit.generate_script, lines 401-545 (ccp4_scr is read at line 523).
MrGenerateScript(c) == Script(mr_program, c, MrCmd(environ, c))

\* The scripts of a list of candidates, in order (p.map keeps the order).
GenerateAll(cs) ==
    [k \in 1..Len(cs) |->
        IF stage = "rot" THEN RotGenerateScript(cs[k]) ELSE MrGenerateScript(cs[k])]

RECURSIVE EnvironAfterAll(_, _)
EnvironAfterAll(env, scripts) ==
    IF scripts = <<>> THEN env
    ELSE EnvironAfterAll(EnvironAfterGenerate(env, Head(scripts).cmds), Tail(scripts))

(* ------------------------------ scoring ------------------------------- *)
\* AmoreRotationScore, of which the ranking reads pdb_code and CC_F_Z_score.
RotScore(c, z) == [pdb_code |-> c, CC_F_Z_score |-> z]

\* run, lines 284-307: one pass over the chunk in order; a missing log
\* raises IOError, which is passed over; a score enters the results when
\* its primary Z-score is truthy.
RECURSIVE RotScoreChunkDiscardLate(_)
RotScoreChunkDiscardLate(cs) ==
    IF cs = <<>> THEN <<>>
    ELSE LET c == Head(cs)
             one == IF IsSome(log[c]) /\ Truthy(log[c][1]) /\ c \notin late
                    THEN <<RotScore(c, log[c][1])>> ELSE <<>>
         IN one \o RotScoreChunkDiscardLate(Tail(cs))
RECURSIVE RotScoreChunk(_)
RotScoreChunk(cs) ==
    IF cs = <<>> THEN <<>>
    ELSE LET c == Head(cs)
             one == IF IsSome(log[c]) /\ Truthy(log[c][1])
                    THEN <<RotScore(c, log[c][1])>> ELSE <<>>
         IN one \o RotScoreChunk(Tail(cs))

\* MrScore as submit_jobs (lines 358-368, 391-394) and existing_solution
\* (lines 569-583) fill it.  llg and tfz of the files stand for the two
\* placement metrics of the engine that ran; phaser_rfz plays no part; the
\* two anomalous metrics are undefined until line 380 sets them.
MrScore(c, f) ==
    [pdb_code |-> c,
     molrep_score |-> IF mr_program = "molrep" THEN Some(f.llg) ELSE None,
     molrep_tfscore |-> IF mr_program = "molrep" THEN Some(f.tfz) ELSE None,
     phaser_tfz |-> IF mr_program = "phaser" THEN Some(f.tfz) ELSE None,
     phaser_llg |-> IF mr_program = "phaser" THEN Some(f.llg) ELSE None,
     phaser_rfz |-> IF mr_program = "phaser" THEN Some(0) ELSE None,
     final_r_free |-> IF c \in malformed THEN None ELSE Some(f.final_r_free),
     final_r_fact |-> IF c \in malformed THEN None ELSE Some(f.final_r_fact),
     dano_peak_height |-> None,
     nearest_atom |-> None]

\* anomalous_data_present, lines 588-603.
anomalous_data_present ==
    IF mtz_labels.dano THEN TRUE
    ELSE IF mtz_labels.iplus THEN TRUE
    ELSE IF mtz_labels.fplus THEN TRUE
    ELSE FALSE

\* How AnodeSearch.run and search_results end: with a result, or with one
\* of the two errors lines 386-389 name.
AnodeOutcomes == {"ok", "RuntimeError", "PyJobExecutionError"}
\* The peak height and the nearest atom of a search that ended well.
AnodePeak(c) == Some(c)

\* submit_jobs, lines 370-389: with anomalous data the search is run on
\* the candidate's model; its two results are assigned (lines 380-381)
\* only when neither call raised, and both errors are logged and dropped.
WithAnomalous(score, c) ==
    IF anomalous_data_present /\ anode[c] = "ok"
    THEN [score EXCEPT !.dano_peak_height = AnodePeak(c), !.nearest_atom = AnodePeak(c)]
    ELSE score

\* submit_jobs, lines 347-397: a candidate lacking its MR log, its
\* refinement log or its output model is passed over.
RECURSIVE MrScoreAll(_)
MrScoreAll(cs) ==
    IF cs = <<>> THEN <<>>
    ELSE LET c == Head(cs)
             f == mr_files[c]
             one == IF f.mr_log /\ f.ref_log /\ f.pdbout
                    THEN <<WithAnomalous(MrScore(c, f), c)>> ELSE <<>>
         IN one \o MrScoreAll(Tail(cs))

\* existing_solution, lines 561-586: the first candidate, in input order,
\* whose refinement log is there and good; <<>> when there is none.
ExistingSolutionLast(cs) ==
    LET good == {k \in 1..Len(cs) :
                    /\ mr_files[cs[k]].ref_log
                    /\ _mr_job_succeeded(mr_files[cs[k]].final_r_fact,
                                         mr_files[cs[k]].final_r_free)}
    IN IF good = {} THEN <<>>
       ELSE LET k == CHOOSE k \in good : \A j \in good : j <= k
            IN <<MrScore(cs[k], mr_files[cs[k]])>>
RECURSIVE existing_solution(_)
existing_solution(cs) ==
    IF cs = <<>> THEN <<>>
    ELSE LET f == mr_files[Head(cs)]
         IN IF f.ref_log /\ _mr_job_succeeded(f.final_r_fact, f.final_r_free)
            THEN <<MrScore(Head(cs), f)>>
            ELSE existing_solution(Tail(cs))

(* ----------------------------- callbacks ------------------------------ *)
\* rot_succeeded_log, lines 468-521, on the log of candidate c; f is what
\* the follow-up replacement run (lines 493-507) leaves behind when it runs;
\* mr_run tells whether that run was started.
RotSucceededLogOnZ(c, f) ==
    IF skip_mr \/ process_all
    THEN [ret |-> FALSE, solution |-> solution, tested |-> tested, mr_files |-> mr_files,
          mr_run |-> FALSE]
    ELSE IF _rot_job_succeeded(log[c][1]) /\ c \notin Range(tested)
    THEN [ret |-> TRUE, solution |-> TRUE,
          tested |-> Append(tested, c), mr_files |-> [mr_files EXCEPT ![c] = f],
          mr_run |-> TRUE]
    ELSE [ret |-> FALSE, solution |-> solution, tested |-> tested, mr_files |-> mr_files,
          mr_run |-> FALSE]
RotSucceededLogRetested(c, f) ==
    IF skip_mr \/ process_all
    THEN [ret |-> FALSE, solution |-> solution, tested |-> tested, mr_files |-> mr_files,
          mr_run |-> FALSE]
    ELSE IF _rot_job_succeeded(log[c][1])
    THEN LET ok == \/ f.ref_log /\ _refinement_succeeded(f.final_r_fact, f.final_r_free)
                   \/ f.mr_log /\ mr_program = "phaser" /\ _phaser_succeeded(f.llg, f.tfz)
         IN [ret |-> ok, solution |-> solution \/ ok,
             tested |-> Append(tested, c), mr_files |-> [mr_files EXCEPT ![c] = f],
             mr_run |-> TRUE]
    ELSE [ret |-> FALSE, solution |-> solution, tested |-> tested, mr_files |-> mr_files,
          mr_run |-> FALSE]
RotSucceededLogIgnoringFlags(c, f) ==
    IF _rot_job_succeeded(log[c][1]) /\ c \notin Range(tested)
    THEN LET ok == \/ f.ref_log /\ _refinement_succeeded(f.final_r_fact, f.final_r_free)
                   \/ f.mr_log /\ mr_program = "phaser" /\ _phaser_succeeded(f.llg, f.tfz)
         IN [ret |-> ok, solution |-> solution \/ ok,
             tested |-> Append(tested, c), mr_files |-> [mr_files EXCEPT ![c] = f],
             mr_run |-> TRUE]
    ELSE [ret |-> FALSE, solution |-> solution, tested |-> tested, mr_files |-> mr_files,
          mr_run |-> FALSE]
rot_succeeded_log(c, f) ==
    IF skip_mr \/ process_all
    THEN [ret |-> FALSE, solution |-> solution, tested |-> tested, mr_files |-> mr_files,
          mr_run |-> FALSE]
    ELSE IF _rot_job_succeeded(log[c][1]) /\ c \notin Range(tested)
    THEN LET ok == \/ f.ref_log /\ _refinement_succeeded(f.final_r_fact, f.final_r_free)
                   \/ f.mr_log /\ mr_program = "phaser" /\ _phaser_succeeded(f.llg, f.tfz)
         IN [ret |-> ok, solution |-> solution \/ ok,
             tested |-> Append(tested, c), mr_files |-> [mr_files EXCEPT ![c] = f],
             mr_run |-> TRUE]
    ELSE [ret |-> FALSE, solution |-> solution, tested |-> tested, mr_files |-> mr_files,
          mr_run |-> FALSE]

\* submit_jobs, lines 338-341: the callback handed to submit_chunk.
MrSuccessFunc(pa) == IF pa THEN "None" ELSE "mr_succeeded_log"


(* ------------------- AmoreRotationSearch.run: steps ------------------- *)
\* A new batch: the scripts are queued, nothing has run.
Submit(scripts, func) ==
    /\ collector' = scripts
    /\ success_func' = func
    /\ status' = [c \in Cands |->
                    IF \E k \in 1..Len(scripts) : scripts[k].stem = c
                    THEN "queued" ELSE "none"]
    /\ called' = [c \in Cands |-> FALSE]
    /\ cancel' = FALSE
    /\ trial_scr' = [c \in Cands |-> None]

\* run, lines 168-250: the set-up; line 197 reads CCP4_SCR.
RunSetup ==
    /\ stage = "rot" /\ pc = "Start"
    /\ ccp4_scr' = environ
    /\ candidates' = sorted_dat_models(simbad_dat_files, MinSolventContent)
    /\ pc' = "Ready"
    /\ UNCHANGED <<stage, process_all, skip_mr, mr_program, chunk_size, aggr, environ,
                   cycle_i, solution, tested, results, search_results, batch, hist>>

\* run, lines 253-258: a cycle that finds the solution flag set is skipped.
RunSkipChunkStay ==
    /\ stage = "rot" /\ pc = "Ready"
    /\ cycle_i < n_files
    /\ solution
    /\ UNCHANGED vars
RunSkipChunk ==
    /\ stage = "rot" /\ pc = "Ready"
    /\ cycle_i < n_files
    /\ solution
    /\ cycle_i' = cycle_i + chunk_size
    /\ UNCHANGED <<config, aggr, environ, pc, ccp4_scr, solution, tested, results,
                   search_results, batch, hist>>

\* Line 256 as the guard of a dispatch.
MayDispatchAlways == TRUE
MayDispatch == ~solution

\* run, lines 260-282: the chunk's scripts are generated and submitted.
RunDispatch ==
    /\ stage = "rot" /\ pc = "Ready"
    /\ cycle_i < n_files
    /\ MayDispatch
    /\ LET scripts == GenerateAll(ChunkAt(cycle_i))
       IN /\ Submit(scripts, "rot_succeeded_log")
          /\ environ' = EnvironAfterAll(environ, scripts)
          /\ dispatched' = Append(dispatched,
                 [i |-> cycle_i, cands |-> [k \in 1..Len(scripts) |-> scripts[k].stem]])
    /\ pc' = "AwaitingCompletion"
    /\ UNCHANGED <<config, aggr, cycle_i, ccp4_scr, solution, tested, results,
                   search_results, log, mr_files, late, succeeded, followups>>

\* run, lines 284-307: the chunk is scored and the loop goes on.
RunScoreWhileAwaiting ==
    /\ stage = "rot" /\ pc \in {"AwaitingCompletion", "Scoring"}
    /\ results' = results \o RotScoreChunk([k \in 1..Len(collector) |-> collector[k].stem])
    /\ cycle_i' = cycle_i + chunk_size
    /\ pc' = "Ready"
    /\ UNCHANGED <<config, aggr, environ, ccp4_scr, solution, tested, search_results,
                   batch, hist>>
RunScore ==
    /\ stage = "rot" /\ pc = "Scoring"
    /\ results' = results \o RotScoreChunk([k \in 1..Len(collector) |-> collector[k].stem])
    /\ cycle_i' = cycle_i + chunk_size
    /\ pc' = "Ready"
    /\ UNCHANGED <<config, aggr, environ, ccp4_scr, solution, tested, search_results,
                   batch, hist>>

\* run, lines 312-316: the loop is over.
RunFinish ==
    /\ stage = "rot" /\ pc = "Ready"
    /\ cycle_i >= n_files
    /\ search_results' = results
    /\ pc' = "Done"
    /\ UNCHANGED <<config, aggr, environ, cycle_i, ccp4_scr, solution, tested, results,
                   batch, hist>>

(* ------------------------ MrSubmit.submit_jobs ------------------------ *)
\* submit_jobs, lines 316-343: an existing solution ends the call; else
\* every candidate's script is generated and the batch submitted.
SubmitJobs ==
    /\ stage = "mr" /\ pc = "Start"
    /\ IF existing_solution(candidates) # <<>>
       THEN /\ search_results' = existing_solution(candidates)
            /\ pc' = "Done"
            /\ UNCHANGED <<environ, ccp4_scr, batch, hist>>
       ELSE IF candidates # <<>> /\ refine_python_module(refine_program).raised
       THEN \* generate_script, line 488: the KeyError leaves pool.map
            /\ pc' = "Error"
            /\ UNCHANGED <<environ, ccp4_scr, search_results, batch, hist>>
       ELSE LET scripts == GenerateAll(candidates)
            IN /\ Submit(scripts, MrSuccessFunc(process_all))
               /\ environ' = EnvironAfterAll(environ, scripts)
               /\ ccp4_scr' = environ
               /\ dispatched' = Append(dispatched, [i |-> 0, cands |-> candidates])
               /\ pc' = "AwaitingCompletion"
               /\ UNCHANGED <<search_results, log, mr_files, late, succeeded, followups>>
    /\ UNCHANGED <<config, aggr, cycle_i, solution, tested, results>>

\* submit_jobs, lines 347-394: the parsers are called outside any try; the
\* IOError of a refinement log that cannot be read leaves the loop.  The
\* two errors of the anomalous search are caught at lines 386-389.
MrScoringRaisesOnAnode(cs) ==
    \E k \in 1..Len(cs) :
        LET f == mr_files[cs[k]]
        IN /\ f.mr_log /\ f.ref_log /\ f.pdbout
           /\ \/ cs[k] \in unreadable
              \/ anomalous_data_present /\ anode[cs[k]] # "ok"
MrScoringRaises(cs) ==
    \E k \in 1..Len(cs) :
        LET f == mr_files[cs[k]]
        IN f.mr_log /\ f.ref_log /\ f.pdbout /\ cs[k] \in unreadable

\* submit_jobs, lines 345-399: zip(*run_files) of line 346 raises
\* ValueError when there was no candidate.
SubmitJobsScore ==
    /\ stage = "mr" /\ pc = "Scoring"
    /\ IF candidates = <<>> \/ MrScoringRaises(candidates)
       THEN /\ pc' = "Error"
            /\ UNCHANGED <<results, search_results>>
       ELSE /\ results' = MrScoreAll(candidates)
            /\ search_results' = results'
            /\ pc' = "Done"
    /\ UNCHANGED <<config, aggr, environ, cycle_i, ccp4_scr, solution, tested, batch, hist>>

(* -------------------- the execution boundary -------------------------- *)
\* submit_chunk (simbad.util) runs the batch: trials start, finish or are
\* cancelled; the callback is run on the log of a finished trial; the call
\* returns when every trial has finished or was cancelled.

\* What a finished trial leaves: in the rotation stage a script log with
\* its parsed Z-score (or none); in the replacement stage a script log and
\* the files of the run.
TrialFinish(c) ==
    /\ pc = "AwaitingCompletion" /\ status[c] = "running"
    /\ status' = [status EXCEPT ![c] = "done"]
    /\ IF stage = "rot"
       THEN /\ \E l \in RotLogs : log' = [log EXCEPT ![c] = l]
            /\ UNCHANGED mr_files
       ELSE /\ log' = [log EXCEPT ![c] = Some(None)]
            /\ \E f \in MrOutcomes : mr_files' = [mr_files EXCEPT ![c] = f]
    /\ LET cmds == ScriptFor(c).cmds
       IN trial_scr' = [trial_scr EXCEPT ![c] = Some(RunSteps(cmds, Len(cmds), environ))]
    /\ late' = IF cancel THEN late \cup {c} ELSE late
    /\ UNCHANGED <<config, aggr, environ, sched, collector, success_func, called, cancel,
                   dispatched, succeeded, followups>>

TrialStart(c) ==
    /\ pc = "AwaitingCompletion" /\ status[c] = "queued"
    /\ status' = [status EXCEPT ![c] = "running"]
    /\ UNCHANGED <<config, aggr, environ, sched, collector, success_func, log, mr_files,
                   called, cancel, trial_scr, hist>>

\* A running trial cancelled before its end: it wrote no log.
TrialKill(c) ==
    /\ pc = "AwaitingCompletion" /\ status[c] = "running" /\ cancel
    /\ status' = [status EXCEPT ![c] = "killed"]
    /\ UNCHANGED <<config, aggr, environ, sched, collector, success_func, log, mr_files,
                   called, cancel, trial_scr, hist>>

\* The callback on the log of a finished trial; when it returns True the
\* queued trials are cancelled.
Callback(c) ==
    /\ pc = "AwaitingCompletion" /\ status[c] = "done" /\ IsSome(log[c])
    /\ success_func # "None" /\ ~cancel
    /\ called' = [called EXCEPT ![c] = TRUE]
    /\ \E f \in MrOutcomes :
         LET r == IF success_func = "rot_succeeded_log"
                  THEN rot_succeeded_log(c, f)
                  ELSE [ret |-> mr_succeeded_log(mr_files[c]), solution |-> solution,
                        tested |-> tested, mr_files |-> mr_files, mr_run |-> FALSE]
         IN /\ solution' = r.solution
            /\ tested' = r.tested
            /\ mr_files' = r.mr_files
            /\ cancel' = r.ret
            /\ succeeded' = IF r.ret THEN succeeded \cup {c} ELSE succeeded
            /\ followups' = IF r.mr_run THEN Append(followups, c) ELSE followups
            /\ status' = IF r.ret
                         THEN [d \in Cands |->
                                 IF status[d] = "queued" THEN "killed" ELSE status[d]]
                         ELSE status
    /\ UNCHANGED <<config, aggr, environ, pc, cycle_i, ccp4_scr, results, search_results,
                   collector, success_func, log, trial_scr, dispatched, late>>

\* submit_chunk returns.
BatchReturn ==
    /\ pc = "AwaitingCompletion"
    /\ \A c \in InBatch : status[c] \in {"done", "killed"}
    /\ \/ success_func = "None"
       \/ cancel
       \/ \A c \in InBatch : (status[c] = "done" /\ IsSome(log[c])) => called[c]
    /\ pc' = "Scoring"
    /\ UNCHANGED <<config, aggr, environ, cycle_i, ccp4_scr, solution, tested, results,
                   search_results, batch, hist>>

Next ==
    \/ RunSetup
    \/ RunSkipChunk
    \/ RunDispatch
    \/ RunScore
    \/ RunFinish
    \/ SubmitJobs
    \/ SubmitJobsScore
    \/ \E c \in Cands : TrialStart(c)
    \/ \E c \in Cands : TrialFinish(c)
    \/ \E c \in Cands : TrialKill(c)
    \/ \E c \in Cands : Callback(c)
    \/ BatchReturn

Spec == Init /\ [][Next]_vars

\* One call of AmoreRotationSearch.run.  The routine is sequential code: a
\* step of it that can be taken is taken; and every batch handed to
\* submit_chunk is run to its end: its trials start and end, the callback
\* is run on the finished logs and the call returns.
InitLive == Init /\ stage = "rot"

Scheduler == RunSetup \/ RunSkipChunk \/ RunDispatch \/ RunScore \/ RunFinish

Boundary ==
    \/ \E c \in Cands : TrialStart(c)
    \/ \E c \in Cands : TrialFinish(c)
    \/ \E c \in Cands : TrialKill(c)
    \/ \E c \in Cands : Callback(c)
    \/ BatchReturn

NextLive == Scheduler \/ Boundary

SpecLive == InitLive /\ [][NextLive]_vars /\ WF_vars(Scheduler) /\ WF_vars(Boundary)


(* ------------------------- reading the results ------------------------ *)
\* What a caller of search_results gets: the rows, or the TypeError of
\* float(None) raised by the key function.
Returned(rows) == [raised |-> "none", rows |-> rows]
Raised(error) == [raised |-> error, rows |-> <<>>]

\* AmoreRotationSearch.search_results, lines 422-424.
AmoreSearchResultsTruncateFirst(stored, keep) ==
    IF \E k \in 1..Len(stored) : stored[k].CC_F_Z_score = None
    THEN Raised("TypeError")
    ELSE LET cut == Slice(stored, 0, keep)
         IN Returned(Items(sorted([k \in 1..Len(cut) |->
                                      Keyed(cut[k].CC_F_Z_score[1], cut[k])], TRUE)))
AmoreSearchResultsAscending(stored, keep) ==
    IF \E k \in 1..Len(stored) : stored[k].CC_F_Z_score = None
    THEN Raised("TypeError")
    ELSE Returned(Slice(Items(sorted([k \in 1..Len(stored) |->
                                        Keyed(stored[k].CC_F_Z_score[1], stored[k])], FALSE)),
                        0, keep))
amore_search_results(stored, keep) ==
    IF \E k \in 1..Len(stored) : stored[k].CC_F_Z_score = None
    THEN Raised("TypeError")
    ELSE Returned(Slice(Items(sorted([k \in 1..Len(stored) |->
                                        Keyed(stored[k].CC_F_Z_score[1], stored[k])], TRUE)),
                        0, keep))

\* MrSubmit.search_results, lines 145-148.
mr_search_results(stored) ==
    IF \E k \in 1..Len(stored) : stored[k].final_r_free = None
    THEN Raised("TypeError")
    ELSE Returned(Items(sorted([k \in 1..Len(stored) |->
                                  Keyed(stored[k].final_r_free[1], stored[k])], FALSE)))

\* summarize of either stage (lines 383-410, mr lines 656-682): it reads
\* search_results and hands the value on; nothing is assigned.
SummarizeInPlace ==
    /\ pc = "Done" /\ Len(table) < MaxReads
    /\ LET got == IF stage = "rot" THEN amore_search_results(search_results, max_to_keep)
                  ELSE mr_search_results(search_results)
       IN /\ table' = Append(table, got)
          /\ search_results' = IF got.raised = "none" THEN got.rows ELSE search_results
    /\ UNCHANGED <<config, environ, pc, cycle_i, ccp4_scr, solution, tested, results,
                   batch, hist, args, refine_program, max_to_keep, simbad_dat_files,
                   malformed, unreadable, apart>>
Summarize ==
    /\ pc = "Done" /\ Len(table) < MaxReads
    /\ table' = Append(table, IF stage = "rot"
                              THEN amore_search_results(search_results, max_to_keep)
                              ELSE mr_search_results(search_results))
    /\ UNCHANGED <<config, environ, sched, batch, hist, args, refine_program, max_to_keep,
                   simbad_dat_files, malformed, unreadable, apart>>

\* A replacement trial that ends with a refinement log lacking the
\* R-factor lines: the parser yields undefined values for them.
TrialFinishMalformed(c) ==
    /\ stage = "mr" /\ pc = "AwaitingCompletion" /\ status[c] = "running"
    /\ status' = [status EXCEPT ![c] = "done"]
    /\ log' = [log EXCEPT ![c] = Some(None)]
    /\ mr_files' = [mr_files EXCEPT ![c] =
                       MrFiles(TRUE, TRUE, TRUE, 0, 0, LlgThreshold + 1, TfzThreshold + 1)]
    /\ malformed' = malformed \cup {c}
    /\ LET cmds == ScriptFor(c).cmds
       IN trial_scr' = [trial_scr EXCEPT ![c] = Some(RunSteps(cmds, Len(cmds), environ))]
    /\ UNCHANGED <<config, environ, sched, collector, success_func, called, cancel, hist,
                   args, refine_program, max_to_keep, simbad_dat_files, unreadable, table, apart>>

\* A replacement trial that ends with a refinement log the scheduler
\* cannot read.
TrialFinishUnreadable(c) ==
    /\ stage = "mr" /\ pc = "AwaitingCompletion" /\ status[c] = "running"
    /\ status' = [status EXCEPT ![c] = "done"]
    /\ log' = [log EXCEPT ![c] = Some(None)]
    /\ mr_files' = [mr_files EXCEPT ![c] =
                       MrFiles(TRUE, TRUE, TRUE, 0, 0, LlgThreshold + 1, TfzThreshold + 1)]
    /\ unreadable' = unreadable \cup {c}
    /\ LET cmds == ScriptFor(c).cmds
       IN trial_scr' = [trial_scr EXCEPT ![c] = Some(RunSteps(cmds, Len(cmds), environ))]
    /\ UNCHANGED <<config, environ, sched, collector, success_func, called, cancel, hist,
                   args, refine_program, max_to_keep, simbad_dat_files, malformed, table, apart>>

\* MrSubmit.__init__, lines 71-114: the setters of lines 106 and 109 run
\* in this order and the first that raises ends the construction.
\* AmoreRotationSearch.__init__ (line 84) stores mr_program as given.
Construct ==
    /\ pc = "New"
    /\ IF stage = "rot"
       THEN /\ mr_program' = args.mr_program
            /\ pc' = "Start"
            /\ UNCHANGED refine_program
       ELSE LET m == mr_program_setter(args.mr_program)
                r == refine_program_setter(args.refine_program)
            IN /\ mr_program' = m.value
               /\ refine_program' = IF m.raised THEN "None" ELSE r.value
               /\ pc' = IF m.raised \/ r.raised THEN "ConfigError" ELSE "Start"
    /\ UNCHANGED <<stage, process_all, skip_mr, chunk_size, candidates, environ, cycle_i,
                   ccp4_scr, solution, tested, results, search_results, batch, hist,
                   args, max_to_keep, simbad_dat_files, malformed, unreadable, table, apart>>

\* What calculate_from_struct does for a catalogue entry: a solvent content
\* at or below the minimum, or one of the two errors run() catches.
SolventOutcomes ==
    { [err |-> "none", solvent_content |-> MinSolventContent],
      [err |-> "none", solvent_content |-> MinSolventContent - 1],
      [err |-> "ValueError", solvent_content |-> 0],
      [err |-> "IndexError", solvent_content |-> 0] }
\* The mw_diff of the k-th of n entries: rising, falling or all equal.
MwOrders == {"rising", "falling", "equal"}
MwDiff(order, k, n) ==
    CASE order = "rising" -> k
      [] order = "falling" -> n + 1 - k
      [] OTHER -> 0

\* An object not yet constructed, any engine names, any catalogue; the
\* stage is then run with process_all set.
InitSetup ==
    /\ stage \in {"rot", "mr"}
    /\ process_all = TRUE
    /\ skip_mr = FALSE
    /\ mr_program = "None"
    /\ refine_program = "None"
    /\ args \in (IF stage = "rot"
                 THEN {[mr_program |-> "phaser", refine_program |-> "refmac5"]}
                 ELSE [mr_program : MrNames, refine_program : RefNames])
    /\ \E n \in 0..(IF stage = "rot" THEN MaxFiles ELSE MaxJobs) :
          IF stage = "rot"
          THEN /\ candidates = <<>>
               /\ \E order \in MwOrders : \E o \in [1..n -> SolventOutcomes] :
                     simbad_dat_files =
                        [k \in 1..n |-> DatFile(k, o[k].err, o[k].solvent_content,
                                                 MwDiff(order, k, n))]
          ELSE /\ candidates = [k \in 1..n |-> k]
               /\ simbad_dat_files = <<>>
    /\ chunk_size \in (IF stage = "rot" THEN 1..MaxChunk ELSE {1})
    /\ environ = OriginalScr
    /\ ccp4_scr = None
    /\ pc = "New"
    /\ cycle_i = 0
    /\ solution = FALSE
    /\ tested = <<>>
    /\ results = <<>>
    /\ search_results = <<>>
    /\ collector = <<>>
    /\ success_func = "None"
    /\ status = [c \in Cands |-> "none"]
    /\ log = [c \in Cands |-> None]
    /\ \E pre \in SUBSET Range(candidates) :
          /\ stage = "rot" => pre = {}
          /\ mr_files = [c \in Cands |->
                IF c \in pre
                THEN MrFiles(TRUE, TRUE, TRUE, RThreshold - 1, RThreshold - 1,
                             LlgThreshold, TfzThreshold)
                ELSE NoMrFiles]
    /\ called = [c \in Cands |-> FALSE]
    /\ cancel = FALSE
    /\ trial_scr = [c \in Cands |-> None]
    /\ dispatched = <<>>
    /\ late = {}
    /\ succeeded = {}
    /\ followups = <<>>
    /\ max_to_keep = MaxKeep
    /\ malformed = {}
    /\ unreadable = {}
    /\ table = <<>>
    /\ Apart
    /\ NoLater

NextSetup ==
    \/ Construct
    \/ RunSetup
    \/ RunDispatch
    \/ RunScore
    \/ RunFinish
    \/ SubmitJobs
    \/ SubmitJobsScore
    \/ \E c \in Cands : TrialStart(c)
    \/ \E c \in Cands : TrialFinish(c)
    \/ \E c \in Cands : Callback(c)
    \/ BatchReturn

SpecSetup == InitSetup /\ [][NextSetup]_vars

\* A stage run with process_all set, to its end, and its results read.
InitResults ==
    /\ stage \in {"rot", "mr"}
    /\ process_all = TRUE
    /\ skip_mr = FALSE
    /\ mr_program \in (IF stage = "rot" THEN {"phaser"} ELSE {"molrep", "phaser"})
    /\ \E n \in 0..(IF stage = "rot" THEN MaxFiles ELSE MaxJobs) :
          IF stage = "rot"
          THEN /\ candidates = <<>>
               /\ simbad_dat_files = [k \in 1..n |-> DatFile(k, "none", MinSolventContent, k)]
          ELSE /\ candidates = [k \in 1..n |-> k]
               /\ simbad_dat_files = <<>>
    /\ chunk_size \in (IF stage = "rot" THEN 1..MaxChunk ELSE {1})
    /\ environ = OriginalScr
    /\ ccp4_scr = None
    /\ pc = "Start"
    /\ cycle_i = 0
    /\ solution = FALSE
    /\ tested = <<>>
    /\ results = <<>>
    /\ search_results = <<>>
    /\ collector = <<>>
    /\ success_func = "None"
    /\ status = [c \in Cands |-> "none"]
    /\ log = [c \in Cands |-> None]
    /\ \E pre \in SUBSET Range(candidates) :
          /\ stage = "rot" => pre = {}
          /\ mr_files = [c \in Cands |->
                IF c \in pre
                THEN MrFiles(TRUE, TRUE, TRUE, RThreshold - 1, RThreshold - 1,
                             LlgThreshold, TfzThreshold)
                ELSE NoMrFiles]
    /\ called = [c \in Cands |-> FALSE]
    /\ cancel = FALSE
    /\ trial_scr = [c \in Cands |-> None]
    /\ dispatched = <<>>
    /\ late = {}
    /\ succeeded = {}
    /\ followups = <<>>
    /\ args = [mr_program |-> mr_program, refine_program |-> "refmac5"]
    /\ refine_program = "refmac5"
    /\ max_to_keep \in (IF stage = "rot" THEN 0..MaxKeep ELSE {MaxKeep})
    /\ malformed = {}
    /\ unreadable = {}
    /\ table = <<>>
    /\ Apart
    /\ NoLater

NextResults ==
    \/ RunSetup
    \/ RunDispatch
    \/ RunScore
    \/ RunFinish
    \/ SubmitJobs
    \/ SubmitJobsScore
    \/ \E c \in Cands : TrialStart(c)
    \/ \E c \in Cands : TrialFinish(c)
    \/ \E c \in Cands : TrialFinishMalformed(c)
    \/ \E c \in Cands : TrialFinishUnreadable(c)
    \/ \E c \in Cands : Callback(c)
    \/ BatchReturn
    \/ Summarize

SpecResults == InitResults /\ [][NextResults]_vars


(* ------------------------- LatticeSearch ------------------------------ *)
\* The functions of simbad.lattice.latticesearch.LatticeSearch, as its tests
\* (lattice/tests/test_latticesearch.py) call them.  A cell parameter is
\* held in hundredths, the two decimals the tests write; a probability in
\* thousandths; a tolerance in ten-thousandths (a parameter times a
\* fraction given in hundredths).
Abs(x) == IF x < 0 THEN -x ELSE x

\* A decimal string: the digits before the point and those after it.
Dec(whole, frac) == [whole |-> whole, frac |-> frac]

\* The value of a decimal string of at most two decimals, in hundredths.
FloatUnpadded(s) ==
    s.whole * 100 + (CASE Len(s.frac) = 0 -> 0
                       [] Len(s.frac) = 1 -> s.frac[1]
                       [] OTHER -> 10 * s.frac[1] + s.frac[2])
float(s) ==
    s.whole * 100 + (CASE Len(s.frac) = 0 -> 0
                       [] Len(s.frac) = 1 -> 10 * s.frac[1]
                       [] OTHER -> 10 * s.frac[1] + s.frac[2])

\* The ways of writing a value of hundredths with at most two decimals.
Writings(v) ==
    {Dec(v \div 100, <<(v % 100) \div 10, v % 10>>)}
    \cup (IF v % 10 = 0 THEN {Dec(v \div 100, <<(v % 100) \div 10>>)} ELSE {})
    \cup (IF v % 100 = 0 THEN {Dec(v \div 100, <<>>)} ELSE {})

\* The cells of the tests: lines 43 and 56 (the toxd cell), line 57, line 98.
UnitCell1 == <<7358, 3873, 2319, 9000, 9000, 9000>>
UnitCell2 == <<4134, 12301, 9323, 12000, 9000, 8900>>
UnitCell3 == <<6916, 3873, 2319, 9000, 9000, 9000>>
\* A cell as the tests of calculate_penalty write it: two decimals each.
AsStrings(cell) ==
    [i \in 1..6 |-> Dec(cell[i] \div 100, <<(cell[i] % 100) \div 10, cell[i] % 10>>)]
\* Line 86: tolerance = unit_cell_1 * 0.05.
ToleranceOf(cell, hundredths) == [i \in 1..6 |-> cell[i] * hundredths]

\* cell_within_tolerance: the parameters are gone through in order and the
\* first one further from its counterpart than its tolerance ends the
\* check; a difference equal to the tolerance passes.
RECURSIVE WithinExclusiveFrom(_, _, _, _)
WithinExclusiveFrom(query, reference, tolerance, i) ==
    IF i > Len(query) THEN TRUE
    ELSE IF 100 * Abs(query[i] - reference[i]) >= tolerance[i] THEN FALSE
    ELSE WithinExclusiveFrom(query, reference, tolerance, i + 1)
RECURSIVE WithinFrom(_, _, _, _)
WithinFrom(query, reference, tolerance, i) ==
    IF i > Len(query) THEN TRUE
    ELSE IF 100 * Abs(query[i] - reference[i]) > tolerance[i] THEN FALSE
    ELSE WithinFrom(query, reference, tolerance, i + 1)

CellWithinToleranceExclusive(query, reference, tolerance) ==
    WithinExclusiveFrom(query, reference, tolerance, 1)
cell_within_tolerance(query, reference, tolerance) ==
    WithinFrom(query, reference, tolerance, 1)

\* calculate_penalty: the cells are given as strings; the penalty of the
\* lengths is the sum of the absolute differences of the three lengths,
\* that of the angles the sum over the three angles, the total their sum.
\* The three are returned rounded to two decimals, which sums of
\* hundredths are.
CalculatePenaltyRelative(query, reference) ==
    LET q == [i \in 1..6 |-> float(query[i])]
        r == [i \in 1..6 |-> float(reference[i])]
        delta == [i \in 1..6 |-> (100 * Abs(q[i] - r[i])) \div r[i]]
        length_penalty == delta[1] + delta[2] + delta[3]
        angle_penalty == delta[4] + delta[5] + delta[6]
    IN <<length_penalty + angle_penalty, length_penalty, angle_penalty>>
calculate_penalty(query, reference) ==
    LET q == [i \in 1..6 |-> float(query[i])]
        r == [i \in 1..6 |-> float(reference[i])]
        delta == [i \in 1..6 |-> Abs(q[i] - r[i])]
        length_penalty == delta[1] + delta[2] + delta[3]
        angle_penalty == delta[4] + delta[5] + delta[6]
    IN <<length_penalty + angle_penalty, length_penalty, angle_penalty>>

\* calculate_probability: a fixed exponential decay of the penalty, 1 at
\* penalty 0, returned rounded to three decimals (line 78 compares the
\* value at 0.25 with 0.902 for equality).  The curve is followed on the
\* grid of quarters of a unit, where one step multiplies by 0.902; Decay
\* keeps five decimals.
RECURSIVE Decay(_)
Decay(quarters) ==
    IF quarters = 0 THEN 100000 ELSE (Decay(quarters - 1) * 902 + 500) \div 1000

CalculateProbabilityComplement(score) == 1000 - (Decay(score \div 25) + 50) \div 100
calculate_probability(score) == (Decay(score \div 25) + 50) \div 100

\* check_sg: the symbols with another setting or axis choice are looked up
\* in a table; any other symbol is returned as it is.
SgSymbols == {"A1", "P1", "C1211", "I1211", "I21", "C2", "I2", "R3", "R3:R", "P212121"}
SgConversionChained ==
    [sg \in {"A1", "C1211", "I1211", "I21", "R3"} |->
        CASE sg = "A1" -> "P1"
          [] sg = "C1211" -> "C2"
          [] sg = "I1211" -> "I21"
          [] sg = "I21" -> "I2"
          [] OTHER -> "R3:R"]
sg_conversion ==
    [sg \in {"A1", "C1211", "I1211", "I21", "R3"} |->
        CASE sg = "A1" -> "P1"
          [] sg = "C1211" -> "C2"
          [] sg = "I1211" -> "I2"
          [] sg = "I21" -> "I2"
          [] OTHER -> "R3:R"]
CheckSgChained(sg) ==
    IF sg \in DOMAIN SgConversionChained THEN SgConversionChained[sg] ELSE sg
check_sg(sg) == IF sg \in DOMAIN sg_conversion THEN sg_conversion[sg] ELSE sg


(* ------------------------ mr_succeeded_csvfile ------------------------ *)
\* The table pd.read_csv makes of the file: its columns and its rows; a
\* cell is <<>> (NaN) or <<v>>.  A comparison with NaN is false.
CsvRow(rfact, rfree, llg, tfz) ==
    [final_r_fact |-> rfact, final_r_free |-> rfree, phaser_llg |-> llg, phaser_tfz |-> tfz]
RowRefinementSucceeded(row) ==
    /\ IsSome(row.final_r_fact) /\ IsSome(row.final_r_free)
    /\ _refinement_succeeded(row.final_r_fact[1], row.final_r_free[1])
RowPhaserSucceeded(row) ==
    /\ IsSome(row.phaser_llg) /\ IsSome(row.phaser_tfz)
    /\ _phaser_succeeded(row.phaser_llg[1], row.phaser_tfz[1])

\* mr_succeeded_csvfile, lines 722-746: reading a column the table lacks
\* raises AttributeError; in the try branch this leads to the except
\* branch, which reads the two R-factor columns alone.
MrSucceededCsvfileNoExcept(df) ==
    IF {"final_r_fact", "final_r_free", "phaser_llg", "phaser_tfz"} \subseteq df.columns
    THEN [raised |-> "none",
          value |-> \E k \in 1..Len(df.rows) :
                       RowRefinementSucceeded(df.rows[k]) \/ RowPhaserSucceeded(df.rows[k])]
    ELSE [raised |-> "AttributeError", value |-> FALSE]
mr_succeeded_csvfile(df) ==
    IF {"final_r_fact", "final_r_free", "phaser_llg", "phaser_tfz"} \subseteq df.columns
    THEN [raised |-> "none",
          value |-> \E k \in 1..Len(df.rows) :
                       RowRefinementSucceeded(df.rows[k]) \/ RowPhaserSucceeded(df.rows[k])]
    ELSE IF {"final_r_fact", "final_r_free"} \subseteq df.columns
    THEN [raised |-> "none",
          value |-> \E k \in 1..Len(df.rows) : RowRefinementSucceeded(df.rows[k])]
    ELSE [raised |-> "AttributeError", value |-> FALSE]

(* ------------------- run() called more than once --------------------- *)
\* A further call of AmoreRotationSearch.run on the same object.  Lines
\* 192-193 make a new script directory, so no log of the earlier call is
\* seen; line 251 starts 'results' anew; self.solution (set at line 92, in
\* __init__) and self.tested (line 96) are assigned nowhere in run() and
\* keep what the earlier call left, as do the files under mr_search.
RunAgain ==
    /\ stage = "rot" /\ pc = "Done"
    /\ run_no < MaxRuns
    /\ run_no' = run_no + 1
    /\ pc' = "Start"
    /\ cycle_i' = 0
    /\ results' = <<>>
    /\ Submit(<<>>, "None")
    /\ log' = [c \in Cands |-> None]
    /\ dispatched' = <<>>
    /\ late' = {}
    /\ succeeded' = {}
    /\ UNCHANGED <<config, environ, ccp4_scr, solution, tested, search_results, mr_files,
                   followups, args, refine_program, max_to_keep, simbad_dat_files,
                   malformed, unreadable, table, calls, mainv, mtz_labels, anode>>

\* The callback is in use: with skip_mr or process_all it returns False at
\* once and no call of run() signals anything.
InitRerun == Init /\ stage = "rot" /\ ~skip_mr /\ ~process_all

NextRerun ==
    \/ Scheduler
    \/ Boundary
    \/ RunAgain

SpecRerun == InitRerun /\ [][NextRerun]_vars

(* ---------------- submit_jobs with anomalous data -------------------- *)
\* The anomalous columns the reflection file may hold.
LabelSets ==
    { NoLabels,
      [dano |-> TRUE, iplus |-> FALSE, fplus |-> FALSE],
      [dano |-> FALSE, iplus |-> TRUE, fplus |-> FALSE],
      [dano |-> FALSE, iplus |-> FALSE, fplus |-> TRUE] }

\* One call of MrSubmit.submit_jobs on a reflection file with or without
\* anomalous data; every log that exists can be read.
InitAnomalous ==
    /\ InitStage
    /\ stage = "mr"
    /\ mtz_labels \in LabelSets
    /\ anode \in [Cands -> AnodeOutcomes]
    /\ \A c \in Cands : (c \notin Range(candidates) \/ ~anomalous_data_present) => anode[c] = "ok"
    /\ run_no = 1

NextAnomalous ==
    \/ SubmitJobs
    \/ SubmitJobsScore
    \/ \E c \in Cands : TrialStart(c)
    \/ \E c \in Cands : TrialFinish(c)
    \/ \E c \in Cands : TrialKill(c)
    \/ \E c \in Cands : Callback(c)
    \/ BatchReturn

SpecAnomalous == InitAnomalous /\ [][NextAnomalous]_vars

(* ------------------- functions called on their own -------------------- *)
\* No stage object exists.
NoStage ==
    /\ stage = "none"
    /\ process_all = FALSE
    /\ skip_mr = FALSE
    /\ mr_program = "None"
    /\ chunk_size = 1
    /\ candidates = <<>>
    /\ environ = OriginalScr
    /\ ccp4_scr = None
    /\ pc = "none"
    /\ cycle_i = 0
    /\ solution = FALSE
    /\ tested = <<>>
    /\ results = <<>>
    /\ search_results = <<>>
    /\ collector = <<>>
    /\ success_func = "None"
    /\ status = [c \in Cands |-> "none"]
    /\ log = [c \in Cands |-> None]
    /\ mr_files = [c \in Cands |-> NoMrFiles]
    /\ called = [c \in Cands |-> FALSE]
    /\ cancel = FALSE
    /\ trial_scr = [c \in Cands |-> None]
    /\ dispatched = <<>>
    /\ late = {}
    /\ succeeded = {}
    /\ followups = <<>>
    /\ args = [mr_program |-> "None", refine_program |-> "None"]
    /\ refine_program = "None"
    /\ max_to_keep = MaxKeep
    /\ simbad_dat_files = <<>>
    /\ malformed = {}
    /\ unreadable = {}
    /\ table = <<>>
    /\ NoLater

stagev == <<config, environ, sched, batch, hist, args, refine_program, max_to_keep,
            simbad_dat_files, malformed, unreadable, table, later>>

\* A cell with parameter i moved by d hundredths.
Shifted(cell, i, d) == [cell EXCEPT ![i] = cell[i] + d]
\* The cells written as strings, parameter i in any of its writings.
Written(cell, i) ==
    {[AsStrings(cell) EXCEPT ![i] = w] : w \in Writings(cell[i])}

ToleranceCalls ==
    {[op |-> "cell_within_tolerance", query |-> UnitCell1, reference |-> r,
      tolerance |-> ToleranceOf(UnitCell1, 5)] : r \in {UnitCell1, UnitCell3}}
    \cup {[op |-> "cell_within_tolerance", query |-> UnitCell1,
           reference |-> Shifted(UnitCell1, i, d),
           tolerance |-> [j \in 1..6 |-> IF j = i2 THEN 100 * t ELSE 100 * MaxShift]] :
            i \in 1..6, d \in (0 - MaxShift)..MaxShift, i2 \in 1..6, t \in 0..MaxShift}
PenaltyCalls ==
    {[op |-> "calculate_penalty", query |-> AsStrings(UnitCell1), reference |-> AsStrings(r)] :
        r \in {UnitCell1, UnitCell2}}
    \cup UNION {{[op |-> "calculate_penalty", query |-> AsStrings(Shifted(UnitCell1, i, d)),
                  reference |-> r] : r \in Written(Shifted(UnitCell1, i, e), i)} :
                i \in 1..6, d \in 0..MaxShift, e \in 0..MaxShift}
ProbabilityCalls ==
    {[op |-> "calculate_probability", scores |-> <<25 * m, 25 * n>>] :
        m \in 0..MaxQuarters, n \in 0..MaxQuarters}
SgCalls == {[op |-> "check_sg", sg |-> sg] : sg \in SgSymbols}

CsvCells(values) == {None} \cup {Some(v) : v \in values}
CsvRows ==
    {CsvRow(Some(rfact), Some(rfree), llg, Some(tfz)) :
        rfact \in {RThreshold - 1, RThreshold}, rfree \in {RThreshold - 1, RThreshold},
        llg \in CsvCells({LlgThreshold, LlgThreshold + 1}),
        tfz \in {TfzThreshold, TfzThreshold + 1}}
CsvColumns ==
    {{"final_r_fact", "final_r_free", "phaser_llg", "phaser_tfz"},
     {"final_r_fact", "final_r_free", "phaser_llg"},
     {"final_r_fact", "final_r_free"}}
CsvCalls ==
    {[op |-> "mr_succeeded_csvfile", df |-> [columns |-> cols, rows |-> rows]] :
        cols \in CsvColumns, rows \in UNION {[1..n -> CsvRows] : n \in 0..MaxRows}}

\* File names and paths as sequences of characters.  Candidate codes as
\* the catalogue may hold them: plain ones and one with a chain suffix.
PdbCodes == {<<"1", "a">>, <<"2", "a">>, <<"1", "a", "_", "2">>}
\* The directory the catalogue lies in.
ModelDirs == {<<"d">>, <<"2", "a">>}
\* find_simbad_dat_files: the path of the .dat file of a code.
DatPath(dir, code) == dir \o <<"/">> \o code \o <<".dat">>
\* generate_script, the log of the rotation trial of a code: amore_<code>.log.
RotLogPath(code) == <<"w", "/", "amore", "_">> \o code \o <<".log">>

\* os.path.basename: what follows the last separator.
basename(path) ==
    LET seps == {k \in 1..Len(path) : path[k] = "/"}
        last == IF seps = {} THEN 0 ELSE CHOOSE k \in seps : \A j \in seps : j <= k
    IN SubSeq(path, last + 1, Len(path))
\* str.replace(".log", "").
StripLog(name) == SelectSeq(name, LAMBDA ch : ch # ".log")
\* str.split("_", 1)[1]: what follows the first underscore.
AfterFirstUnderscore(name) ==
    LET us == {k \in 1..Len(name) : name[k] = "_"}
        first == CHOOSE k \in us : \A j \in us : k <= j
    IN SubSeq(name, first + 1, Len(name))
\* Python's `sub in s` on strings.
Contains(str, sub) ==
    \E i \in 0..(Len(str) - Len(sub)) : SubSeq(str, i + 1, i + Len(sub)) = sub

\* rot_succeeded_log, lines 471-473: the code is taken from the log's name
\* and the first catalogue path that contains it is the record's dat_model.
dat_model_of(dat_files, logpath) ==
    LET pdb == AfterFirstUnderscore(StripLog(basename(logpath)))
        hits == SelectSeq(dat_files, LAMBDA path : Contains(path, pdb))
    IN hits[1]

\* Calls of the callback's file selection: a catalogue of distinct codes
\* in one directory and the log of one of its candidates.
DatModelCalls ==
    {[op |-> "dat_model", dir |-> dir, codes |-> codes, k |-> k] :
        dir \in ModelDirs,
        codes \in {cs \in UNION {[1..n -> PdbCodes] : n \in 1..Cardinality(PdbCodes)} :
                      \A i, j \in 1..Len(cs) : cs[i] = cs[j] => i = j},
        k \in 1..Cardinality(PdbCodes)}

InitCalls ==
    /\ NoStage
    /\ NoMain
    /\ call \in ToleranceCalls \cup PenaltyCalls \cup ProbabilityCalls \cup SgCalls \cup CsvCalls
                \cup {c \in DatModelCalls : c.k <= Len(c.codes)}
    /\ ret = <<>>

CellWithinTolerance ==
    /\ call.op = "cell_within_tolerance" /\ ret = <<>>
    /\ ret' = <<cell_within_tolerance(call.query, call.reference, call.tolerance)>>
    /\ UNCHANGED <<stagev, mainv, call>>

CalculatePenalty ==
    /\ call.op = "calculate_penalty" /\ ret = <<>>
    /\ ret' = <<calculate_penalty(call.query, call.reference)>>
    /\ UNCHANGED <<stagev, mainv, call>>

\* calculate_probability of each score of the call, or of the total
\* penalty calculate_penalty returned.
CalculateProbability ==
    /\ \/ /\ call.op = "calculate_probability" /\ Len(ret) < Len(call.scores)
          /\ ret' = Append(ret, calculate_probability(call.scores[Len(ret) + 1]))
       \/ /\ call.op = "calculate_penalty" /\ Len(ret) = 1
          /\ ret[1][1] % 25 = 0 /\ ret[1][1] \div 25 <= MaxQuarters
          /\ ret' = Append(ret, calculate_probability(ret[1][1]))
    /\ UNCHANGED <<stagev, mainv, call>>

\* check_sg of the symbol, then of what check_sg returned.
CheckSg ==
    /\ call.op = "check_sg" /\ Len(ret) < 2
    /\ ret' = Append(ret, check_sg(IF ret = <<>> THEN call.sg ELSE ret[1]))
    /\ UNCHANGED <<stagev, mainv, call>>

MrSucceededCsvfile ==
    /\ call.op = "mr_succeeded_csvfile" /\ ret = <<>>
    /\ ret' = <<mr_succeeded_csvfile(call.df)>>
    /\ UNCHANGED <<stagev, mainv, call>>

RotSucceededLogDatModel ==
    /\ call.op = "dat_model" /\ ret = <<>>
    /\ ret' = <<dat_model_of([i \in 1..Len(call.codes) |-> DatPath(call.dir, call.codes[i])],
                             RotLogPath(call.codes[call.k]))>>
    /\ UNCHANGED <<stagev, mainv, call>>

NextCalls ==
    \/ CellWithinTolerance
    \/ CalculatePenalty
    \/ CalculateProbability
    \/ CheckSg
    \/ MrSucceededCsvfile
    \/ RotSucceededLogDatModel

SpecCalls == InitCalls /\ [][NextCalls]_vars


(* ------------------------- simbad_main.main --------------------------- *)
\* The searches of the loop of lines 68-100, in the order of the code:
\* _simbad_lattice_search (line 71), _simbad_contaminant_search (line 80),
\* _simbad_full_search (line 89).
Searches == <<"lattice", "contaminant", "full">>

\* What a search does: it returns whether a solution was found, or raises.
SearchOutcomes == {"found", "none", "raised"}

\* A directory argument: not given, given and there, given and not there.
DirArgs == {"None", "isdir", "absent"}

InitMain ==
    /\ NoStage
    /\ NoCall
    /\ main_pc = "Start"
    /\ main_args \in [work_dir : DirArgs, run_dir : DirArgs, ccp4_jobid : {"None", "1"}]
    /\ solution_found = FALSE
    /\ end_of_cycle = FALSE
    /\ started = <<>>

\* main, lines 40-66: the working directory is made, or the call ends with
\* ValueError (line 42) or RuntimeError (line 51); then the two flags are set.
MainSetup ==
    /\ main_pc = "Start"
    /\ IF main_args.work_dir = "isdir" \/ (main_args.work_dir = "None" /\ main_args.run_dir = "None")
       THEN /\ main_pc' = "Error"
            /\ UNCHANGED main_args
       ELSE /\ main_pc' = "Loop"
            /\ main_args' =
                 IF main_args.work_dir = "absent"
                 THEN [main_args EXCEPT !.work_dir = "isdir"]
                 ELSE [main_args EXCEPT !.work_dir = "made", !.run_dir = "isdir"]
    /\ solution_found' = FALSE
    /\ end_of_cycle' = FALSE
    /\ UNCHANGED <<stagev, calls, started>>

\* main, line 67: while not (solution_found or end_of_cycle).
MainLoopTestUntilEnd ==
    /\ main_pc = "Loop"
    /\ main_pc' = IF ~end_of_cycle THEN "Search1" ELSE "Report"
    /\ UNCHANGED <<stagev, calls, main_args, solution_found, end_of_cycle, started>>
MainLoopTest ==
    /\ main_pc = "Loop"
    /\ main_pc' = IF ~(solution_found \/ end_of_cycle) THEN "Search1" ELSE "Report"
    /\ UNCHANGED <<stagev, calls, main_args, solution_found, end_of_cycle, started>>

\* main, lines 71, 80, 89: the k-th search is called.
MainSearch(k) ==
    /\ main_pc = CASE k = 1 -> "Search1" [] k = 2 -> "Search2" [] OTHER -> "Search3"
    /\ started' = Append(started, [search |-> Searches[k], reported |-> "running"])
    /\ main_pc' = CASE k = 1 -> "Running1" [] k = 2 -> "Running2" [] OTHER -> "Running3"
    /\ UNCHANGED <<stagev, calls, main_args, solution_found, end_of_cycle>>

\* main, lines 71-100: the k-th search returns: with a solution the loop is
\* continued at its test; without one the next search follows, and after
\* the last, line 100 sets end_of_cycle; an exception leaves main.
MainSearchReturns(k) ==
    /\ main_pc = CASE k = 1 -> "Running1" [] k = 2 -> "Running2" [] OTHER -> "Running3"
    /\ \E outcome \in SearchOutcomes :
          /\ started' = [started EXCEPT ![Len(started)].reported = outcome]
          /\ solution_found' = IF outcome = "raised" THEN solution_found ELSE outcome = "found"
          /\ end_of_cycle' = (end_of_cycle \/ (outcome = "none" /\ k = 3))
          /\ main_pc' = CASE outcome = "raised" -> "Error"
                          [] outcome = "found" -> "Loop"
                          [] outcome = "none" /\ k = 1 -> "Search2"
                          [] outcome = "none" /\ k = 2 -> "Search3"
                          [] OTHER -> "Loop"
    /\ UNCHANGED <<stagev, calls, main_args>>

\* main, lines 103-104: the run time is reported and main returns.
MainReport ==
    /\ main_pc = "Report"
    /\ main_pc' = "Done"
    /\ UNCHANGED <<stagev, calls, main_args, solution_found, end_of_cycle, started>>

NextMain ==
    \/ MainSetup
    \/ MainLoopTest
    \/ \E k \in 1..3 : MainSearch(k)
    \/ \E k \in 1..3 : MainSearchReturns(k)
    \/ MainReport

SpecMain == InitMain /\ [][NextMain]_vars


(* ------------------------------ claims -------------------------------- *)
\* The candidates of the chunks submitted so far, in submission order.
DispatchedCands == Flatten([k \in 1..Len(dispatched) |-> dispatched[k].cands])
\* The candidates that have a record in the results.
Scored == {results[k].pdb_code : k \in 1..Len(results)}
\* A rotation log that exists and holds a defined primary Z-score.
HasZ(c) == IsSome(log[c]) /\ IsSome(log[c][1])
ZOf(c) == log[c][1][1]

\* C1: for every chunk size >= 1 and every worklist length >= 0 the slices
\* [i, i + chunk_size) taken at i = 0, chunk_size, 2*chunk_size, ... are
\* non-empty, pairwise disjoint and concatenate, in order, to the ranked
\* worklist; every chunk run() submits is the slice of its cycle.
C1_ChunksPartition ==
    stage = "rot" =>
      LET chunks == [k \in 1..Len(iteration_range) |-> ChunkAt(iteration_range[k])]
      IN /\ Flatten(chunks) = candidates
         /\ \A k \in 1..Len(chunks) : Len(chunks[k]) >= 1
         /\ \A j, k \in 1..Len(chunks) :
               j # k => Range(chunks[j]) \cap Range(chunks[k]) = {}
         /\ \A d \in 1..Len(dispatched) :
               /\ dispatched[d].i \in Range(iteration_range)
               /\ dispatched[d].cands = chunks[(dispatched[d].i \div chunk_size) + 1]

\* C1 witness: a finished run that submitted every chunk of a worklist
\* whose length is no multiple of the chunk size.
C1_Witness ==
    /\ stage = "rot" /\ pc = "Done"
    /\ Len(dispatched) >= 2
    /\ n_files % chunk_size # 0
    /\ DispatchedCands = candidates

\* C2 as stated: in the rotation stage with process_all and skip_mr unset,
\* no chunk is submitted after a chunk one of whose trials has a primary
\* Z-score > 10.
C2_Original ==
    (stage = "rot" /\ ~process_all /\ ~skip_mr) =>
      \A j, k \in 1..Len(dispatched) :
        j < k => \A c \in Range(dispatched[j].cands) : ~(HasZ(c) /\ ZOf(c) > 10)

\* C2 amended: once the callback rot_succeeded_log has returned True for a
\* trial (its primary Z-score is > 10 and its follow-up replacement run
\* satisfied the refinement or, for phaser, the phaser predicate), the flag
\* is set and no later chunk is submitted: the trial's chunk is the last
\* one submitted, and the results hold at most as many records as there
\* are trials in the chunks submitted up to and including it.
C2_EarlyTermination ==
    stage = "rot" =>
      /\ (succeeded # {}) = solution
      /\ \A c \in succeeded :
            /\ HasZ(c) /\ ZOf(c) > 10
            /\ c \in Range(dispatched[Len(dispatched)].cands)
      /\ solution =>
            /\ Len(results) <= Len(DispatchedCands)
            /\ Len(search_results) <= Len(DispatchedCands)

\* C2 witness: a finished run in which the flag was raised in a chunk that
\* was not the last of the worklist, with a record in the final result set.
C2_Witness ==
    /\ stage = "rot" /\ pc = "Done" /\ solution
    /\ Len(dispatched) < Len(iteration_range)
    /\ Len(search_results) >= 1


\* The engine steps of a command sequence.
EngineSteps(cmds) == {m \in 1..Len(cmds) : cmds[m].op \in EngineOps}

\* C3: any two trials of one batch (they can run concurrently) are given
\* different scratch directories: the directories their command sequences
\* redirect CCP4_SCR to differ, in the rotation and in the replacement stage.
C3_PrivateScratch ==
    \A j, k \in 1..Len(collector) :
      j # k => ScratchOf(collector[j].cmds) # ScratchOf(collector[k].cmds)

\* C4: in every generated command sequence each engine step runs with
\* CCP4_SCR redirected to the sequence's scratch directory (the redirecting
\* step precedes every engine step), the last step sets CCP4_SCR back to
\* the value of the scheduler's environment, and a trial that ran its
\* sequence to the end has that value again whatever it inherited.
C4_SelfContained ==
    /\ \A k \in 1..Len(collector) :
         LET cmds == collector[k].cmds
         IN /\ EngineSteps(cmds) # {}
            /\ ScratchOf(cmds) \notin {OriginalScr, <<"inherited">>}
            /\ \A m \in EngineSteps(cmds) :
                  RunSteps(cmds, m - 1, OriginalScr) = ScratchOf(cmds)
            /\ cmds[Len(cmds)] = Export(OriginalScr)
            /\ \A inherited \in {OriginalScr, <<"elsewhere">>} :
                  RunSteps(cmds, Len(cmds), inherited) = OriginalScr
    /\ \A c \in Cands : status[c] = "done" => trial_scr[c] = Some(OriginalScr)

\* C4 witness: two trials of one rotation chunk, one of which has run its
\* sequence to the end while the other is still running.
C4_Witness ==
    /\ stage = "rot" /\ Len(collector) >= 2
    /\ \E c, d \in InBatch :
         /\ status[c] = "done" /\ trial_scr[c] = Some(OriginalScr)
         /\ status[d] = "running"

\* C5: the scheduler process never changes its own CCP4_SCR: in every state
\* of run() and of submit_jobs(), throughout script generation, dispatch,
\* the callbacks and scoring, os.environ holds the value it held at first,
\* and the value the scheduler read from it is that value.
C5_EnvironUnchanged ==
    /\ environ = OriginalScr
    /\ ccp4_scr \in {None, OriginalScr}

\* C5 witness: the end of a call that generated scripts, ran trials in
\* their own shells (which did redirect CCP4_SCR) and scored them.
C5_Witness ==
    /\ pc = "Done" /\ Len(dispatched) >= 1 /\ Len(results) >= 1
    /\ ccp4_scr = OriginalScr /\ environ = OriginalScr
    /\ \E c \in Cands : trial_scr[c] = Some(OriginalScr)


\* The position of candidate c's chunk among the chunks submitted.
ChunkOf(c) == CHOOSE d \in 1..Len(dispatched) : c \in Range(dispatched[d].cands)
\* A rotation trial whose log the scoring pass turns into a record.
Scorable(c) == IsSome(log[c]) /\ Truthy(log[c][1])

\* C6: while a batch is in flight no log of it has been parsed into the
\* results, and every earlier chunk has been scored completely before the
\* next one was submitted; only trials of the chunk submitted last are
\* queued or running; the records stand in the results chunk by chunk.
C6_ScoringAfterBatch ==
    /\ Scored \subseteq Range(DispatchedCands)
    /\ pc = "AwaitingCompletion" => Scored \cap InBatch = {}
    /\ \A c \in Cands : status[c] \in {"queued", "running"} =>
          /\ pc = "AwaitingCompletion"
          /\ c \in Range(dispatched[Len(dispatched)].cands)
    /\ (stage = "rot" /\ pc = "AwaitingCompletion") =>
          \A d \in 1..(Len(dispatched) - 1) : \A c \in Range(dispatched[d].cands) :
             Scorable(c) => c \in Scored
    /\ \A j, k \in 1..Len(results) :
          j < k => ChunkOf(results[j].pdb_code) <= ChunkOf(results[k].pdb_code)

\* C6 witness: the second chunk is in flight; a trial of it has finished
\* with a log that will be scored, and the results hold the records of
\* the first chunk only.
C6_Witness ==
    /\ stage = "rot" /\ pc = "AwaitingCompletion"
    /\ Len(dispatched) = 2 /\ Len(results) >= 1
    /\ \E c \in InBatch : status[c] = "done" /\ Scorable(c) /\ c \notin Scored

C8_RotThreshold ==
    (stage = "rot" /\ ~process_all /\ ~skip_mr) =>
      \A c \in Cands : (called[c] /\ HasZ(c)) => ((c \in Range(tested)) = (ZOf(c) > 10))

\* C8 witness: the callback has run on a log with Z-score 10 and on one
\* with Z-score 11 and went on for the second only.
C8_Witness ==
    /\ stage = "rot" /\ ~process_all /\ ~skip_mr
    /\ \E c, d \in Cands :
         /\ called[c] /\ HasZ(c) /\ ZOf(c) = 10 /\ c \notin Range(tested)
         /\ called[d] /\ HasZ(d) /\ ZOf(d) = 11 /\ d \in Range(tested)

\* The two success conditions on the files of a replacement trial.
RefinementGood(f) == f.ref_log /\ f.final_r_fact < 45 /\ f.final_r_free < 45
PlacementGood(f) == f.mr_log /\ f.llg > 120 /\ f.tfz > 8

\* C9 as stated: the replacement-stage callback returns True (and the
\* batch is cancelled) exactly when a trial it ran on has LLG > 120 and
\* TFZ > 8, or R-factor and R-free below 0.45.
C9_Original ==
    (stage = "mr" /\ success_func = "mr_succeeded_log") =>
      (cancel = \E c \in Cands :
                  called[c] /\ (PlacementGood(mr_files[c]) \/ RefinementGood(mr_files[c])))

Readings == {t \in 1..Len(table) : table[t].raised = "none"}
\* The place of a record in the stored result set.
StoredAt(r) == CHOOSE k \in 1..Len(search_results) : search_results[k] = r

\* C11: in the rotation stage no trial whose parsed primary Z-score is
\* undefined has a record in the result set, every record read from
\* search_results has a defined primary Z-score, and the rows stand in
\* descending order of it.
C11_RankedByZ ==
    stage = "rot" =>
      /\ \A c \in Cands : (IsSome(log[c]) /\ log[c][1] = None) => c \notin Scored
      /\ \A k \in 1..Len(search_results) : IsSome(search_results[k].CC_F_Z_score)
      /\ \A t \in 1..Len(table) :
            /\ table[t].raised = "none"
            /\ \A i, j \in 1..Len(table[t].rows) :
                  /\ IsSome(table[t].rows[i].CC_F_Z_score)
                  /\ i < j => table[t].rows[i].CC_F_Z_score[1] >= table[t].rows[j].CC_F_Z_score[1]

\* C11 witness: a reading whose first row has a higher Z-score than its
\* second although it was stored behind it, of a run in which a trial's
\* log held no primary Z-score.
C11_Witness ==
    /\ stage = "rot" /\ pc = "Done"
    /\ \E c \in Range(DispatchedCands) : IsSome(log[c]) /\ log[c][1] = None
    /\ \E t \in Readings :
         /\ Len(table[t].rows) = 2
         /\ table[t].rows[1].CC_F_Z_score[1] > table[t].rows[2].CC_F_Z_score[1]
         /\ StoredAt(table[t].rows[1]) > StoredAt(table[t].rows[2])

C13_StableRanking ==
    \A t \in Readings :
       LET rows == table[t].rows
       IN /\ \A i, j \in 1..Len(rows) :
                (i < j /\ (IF stage = "rot"
                           THEN rows[i].CC_F_Z_score = rows[j].CC_F_Z_score
                           ELSE rows[i].final_r_free = rows[j].final_r_free))
                => StoredAt(rows[i]) < StoredAt(rows[j])
          /\ stage = "mr" => /\ Len(rows) = Len(search_results)
                             /\ Range(rows) = Range(search_results)

\* C13 witness: a reading of the rotation stage (the descending sort) with
\* two rows of equal Z-score behind a row of higher Z-score that was
\* stored between them.
C13_Witness ==
    /\ stage = "rot"
    /\ \E t \in Readings :
         LET rows == table[t].rows
         IN /\ Len(rows) = 3
            /\ rows[1].CC_F_Z_score[1] > rows[2].CC_F_Z_score[1]
            /\ rows[2].CC_F_Z_score = rows[3].CC_F_Z_score
            /\ StoredAt(rows[2]) < StoredAt(rows[1])
            /\ StoredAt(rows[1]) < StoredAt(rows[3])

C15_MaxToKeep ==
    stage = "rot" =>
      \A t \in Readings :
         LET rows == table[t].rows
         IN /\ Len(rows) <= max_to_keep
            /\ Len(search_results) > max_to_keep => Len(rows) = max_to_keep
            /\ Len(search_results) <= max_to_keep => Len(rows) = Len(search_results)
            /\ Range(rows) \subseteq Range(search_results)
            /\ \A r \in Range(search_results) \ Range(rows) : \A k \in 1..Len(rows) :
                  r.CC_F_Z_score[1] <= rows[k].CC_F_Z_score[1]

\* C15 witness: three records stored, max_to_keep 2, and the record left
\* out was stored first.
C15_Witness ==
    /\ stage = "rot" /\ max_to_keep = 2 /\ Len(search_results) = 3
    /\ \E t \in Readings :
         /\ Len(table[t].rows) = 2
         /\ search_results[1] \notin Range(table[t].rows)


\* The records a replacement stage has produced.
MrRecords == Range(results) \cup Range(search_results)
\* The placement metrics of the two engines, as populated in a record.
MolrepSet(r) == {r.molrep_score, r.molrep_tfscore}
PhaserSet(r) == {r.phaser_tfz, r.phaser_llg, r.phaser_rfz}

\* C16: every record of the replacement stage, from submit_jobs or from
\* existing_solution, has the metrics of the configured engine populated,
\* all of them, and none of the other engine's: exactly one of the two
\* sets, never both and never neither.
C16_OnePlacementSet ==
    stage = "mr" =>
      \A r \in MrRecords :
         \/ /\ mr_program = "molrep"
            /\ None \notin MolrepSet(r) /\ PhaserSet(r) = {None}
         \/ /\ mr_program = "phaser"
            /\ None \notin PhaserSet(r) /\ MolrepSet(r) = {None}

\* C16 witness: an object constructed with the name PHASER whose
\* submit_jobs produced a record with the phaser metrics.
C16_Witness ==
    /\ stage = "mr" /\ args.mr_program = "PHASER" /\ pc = "Done"
    /\ dispatched # <<>>
    /\ \E r \in Range(search_results) : None \notin PhaserSet(r) /\ MolrepSet(r) = {None}

\* C17 as stated: a candidate whose log lacks the expected fields has no
\* record, every record of the replacement stage has a defined R-factor
\* and R-free, and ranking by R-free never meets an undefined key.
C17_NoPartialRecord ==
    /\ \A c \in malformed : c \notin Scored
    /\ stage = "mr" =>
          \A k \in 1..Len(search_results) :
             /\ IsSome(search_results[k].final_r_free)
             /\ IsSome(search_results[k].final_r_fact)
    /\ \A t \in 1..Len(table) : table[t].raised # "TypeError"

\* C18 as stated: scoring never aborts on one candidate: the stage ends in
\* an error only when there was no candidate at all, and after the pass
\* every candidate whose files are there and readable has its record.
C18_ScoringNeverAborts ==
    /\ pc = "Error" => candidates = <<>>
    /\ (stage = "rot" /\ pc \in {"Ready", "Done"}) =>
          \A c \in Range(DispatchedCands) : Scorable(c) => c \in Scored
    /\ (stage = "mr" /\ pc = "Done" /\ dispatched # <<>>) =>
          \A c \in Range(candidates) :
             (mr_files[c].mr_log /\ mr_files[c].ref_log /\ mr_files[c].pdbout
                /\ c \notin unreadable) => c \in Scored

\* C19 as stated: a construction that raises has generated and dispatched
\* nothing, and an object that was constructed holds two engine names that
\* are known programs.
C19_UnknownEngineFatal ==
    stage = "mr" =>
      /\ pc = "ConfigError" => (collector = <<>> /\ dispatched = <<>>)
      /\ pc \notin {"New", "ConfigError"} =>
            /\ mr_program \in MrProgramsMembers
            /\ refine_program \in RefProgramsMembers

\* The catalogue entries whose solvent content was computed without error
\* and is at least the minimum.
Eligible ==
    {k \in 1..Len(simbad_dat_files) :
        /\ simbad_dat_files[k].err = "none"
        /\ simbad_dat_files[k].solvent_content >= MinSolventContent}

\* C20: once run() has built its worklist it holds exactly the eligible
\* catalogue entries, each once, in rising order of mw_diff; an entry whose
\* calculation failed stops nothing: the run reaches no error and has
\* dispatched every entry of the worklist when it is done.
C20_Worklist ==
    (stage = "rot" /\ pc \notin {"New", "Start"}) =>
      /\ Range(candidates) = {simbad_dat_files[k].name : k \in Eligible}
      /\ Len(candidates) = Cardinality(Eligible)
      /\ \A i, j \in 1..Len(candidates) :
            i < j => simbad_dat_files[candidates[i]].mw_diff
                       <= simbad_dat_files[candidates[j]].mw_diff
      /\ pc # "Error"
      /\ pc = "Done" => DispatchedCands = candidates

\* C20 witness: a finished run over a catalogue with an entry of each
\* kind of failure before the one entry that was ranked and dispatched.
C20_Witness ==
    /\ stage = "rot" /\ pc = "Done" /\ Len(simbad_dat_files) = 3
    /\ simbad_dat_files[1].err = "ValueError"
    /\ simbad_dat_files[2].err = "IndexError"
    /\ DispatchedCands = <<3>>


\* C21: a call of run() ends.  For any worklist and chunk size >= 1, when
\* every submitted batch is run to its end, run() reaches its end (with the
\* solution flag set, or with every chunk gone through), and every cycle
\* of the loop, dispatched or skipped, moves on by at least one candidate.
C21_Terminates ==
    /\ <>(pc = "Done" /\ cycle_i >= n_files)
    /\ [][(pc \in {"Ready", "Scoring"} /\ pc' = "Ready") => cycle_i' >= cycle_i + 1]_vars

\* run() ended after more than one cycle, one of them skipped on the flag.
C21_Witness ==
    /\ pc = "Done" /\ solution
    /\ Len(dispatched) >= 1
    /\ Len(dispatched) < Len(iteration_range)


\* The digits after the point, filled up to two.
Padded(s) == s.frac \o [k \in 1..(2 - Len(s.frac)) |-> 0]
\* Two decimal strings that say the same number of hundredths.
SameToPrecision(s, t) == s.whole = t.whole /\ Padded(s) = Padded(t)
Hundredths(s) == s.whole * 100 + 10 * Padded(s)[1] + Padded(s)[2]

\* C22: cell_within_tolerance returns true exactly when each of the six
\* parameters differs from its counterpart by no more than its own
\* tolerance; a difference equal to the tolerance passes, one parameter
\* beyond its tolerance makes the result false.
C22_ToleranceInclusive ==
    (call.op = "cell_within_tolerance" /\ ret # <<>>) =>
        (ret[1] <=> \A i \in 1..6 :
                       100 * Abs(call.query[i] - call.reference[i]) <= call.tolerance[i])

\* A parameter exactly at its tolerance, which is not 0, and the answer was true.
C22_Witness ==
    /\ call.op = "cell_within_tolerance" /\ ret = <<TRUE>>
    /\ \E i \in 1..6 :
          /\ call.tolerance[i] > 0
          /\ 100 * Abs(call.query[i] - call.reference[i]) = call.tolerance[i]

C24_PenaltySums ==
    (call.op = "calculate_penalty" /\ ret # <<>>) =>
        LET d == [i \in 1..6 |-> Abs(Hundredths(call.query[i]) - Hundredths(call.reference[i]))]
        IN /\ ret[1][2] = d[1] + d[2] + d[3]
           /\ ret[1][3] = d[4] + d[5] + d[6]
           /\ ret[1][1] = ret[1][2] + ret[1][3]
           /\ (call.query = AsStrings(UnitCell1) /\ call.reference = AsStrings(UnitCell2))
                 => ret[1] = <<21756, 18656, 3100>>

\* The penalty of the two cells of the test was calculated.
C24_Witness ==
    /\ call.op = "calculate_penalty"
    /\ call.query = AsStrings(UnitCell1) /\ call.reference = AsStrings(UnitCell2)
    /\ ret # <<>> /\ ret[1] = <<21756, 18656, 3100>>

MwDiffOf(c) == simbad_dat_files[c].mw_diff

\* C27: the worklist of run() is in rising order of mw_diff, entries of
\* equal mw_diff in catalogue order, and the chunks are dispatched in that
\* order: what was dispatched is a front part of the worklist, and no
\* candidate of an earlier chunk has a larger mw_diff than one of a later
\* chunk.
C27_DispatchOrder ==
    (stage = "rot" /\ pc \notin {"New", "Start"}) =>
      /\ \A i, j \in 1..Len(candidates) :
            i < j => \/ MwDiffOf(candidates[i]) < MwDiffOf(candidates[j])
                     \/ /\ MwDiffOf(candidates[i]) = MwDiffOf(candidates[j])
                        /\ candidates[i] < candidates[j]
      /\ DispatchedCands = SubSeq(candidates, 1, Len(DispatchedCands))
      /\ \A d1, d2 \in 1..Len(dispatched) :
            d1 < d2 => \A c1 \in Range(dispatched[d1].cands) :
                          \A c2 \in Range(dispatched[d2].cands) :
                             MwDiffOf(c1) <= MwDiffOf(c2)

\* Two chunks were dispatched from a catalogue that lists the entries in
\* falling order of mw_diff.
C27_Witness ==
    /\ stage = "rot" /\ pc = "Done"
    /\ Len(dispatched) >= 2
    /\ Len(candidates) >= 2 /\ candidates[1] > candidates[2]


\* The places in the input of the candidates whose refinement log is
\* there with R-factor and R-free below 0.45.
Solved ==
    {k \in 1..Len(candidates) :
        LET f == mr_files[candidates[k]]
        IN f.ref_log /\ f.final_r_fact < 45 /\ f.final_r_free < 45}

RowRefined(row) ==
    /\ row.final_r_fact # None /\ row.final_r_free # None
    /\ row.final_r_fact[1] < 45 /\ row.final_r_free[1] < 45
RowPlaced(row) ==
    /\ row.phaser_llg # None /\ row.phaser_tfz # None
    /\ row.phaser_llg[1] > 120 /\ row.phaser_tfz[1] > 8

\* C29: mr_succeeded_csvfile returns true exactly when a row of the table
\* satisfies the refinement predicate or the phaser predicate; for a table
\* that lacks the phaser columns, exactly when a row satisfies the
\* refinement predicate; for a table without rows it returns false.
C29_CsvAnyRow ==
    (call.op = "mr_succeeded_csvfile" /\ ret # <<>>) =>
        LET rows == call.df.rows
            phaser == {"phaser_llg", "phaser_tfz"} \subseteq call.df.columns
        IN /\ ret[1].raised = "none"
           /\ phaser => (ret[1].value <=>
                           \E k \in 1..Len(rows) : RowRefined(rows[k]) \/ RowPlaced(rows[k]))
           /\ ~phaser => (ret[1].value <=> \E k \in 1..Len(rows) : RowRefined(rows[k]))
           /\ rows = <<>> => ~ret[1].value

\* A table without the phaser columns whose one row has good phaser values
\* and no good R-factors: the answer was false.
C29_Witness ==
    /\ call.op = "mr_succeeded_csvfile"
    /\ call.df.columns = {"final_r_fact", "final_r_free"}
    /\ Len(call.df.rows) = 1
    /\ ~RowRefined(call.df.rows[1]) /\ RowPlaced(call.df.rows[1])
    /\ ret # <<>> /\ ret[1].raised = "none" /\ ~ret[1].value


\* C30: main() starts its searches in the order lattice, contaminant,
\* full, each at most once; a search is started only when every search
\* before it reported no solution, so none is started after one that
\* reported a solution.
C30_SearchOrder ==
    /\ Len(started) <= 3
    /\ \A k \in 1..Len(started) :
          /\ started[k].search = Searches[k]
          /\ k < Len(started) => started[k].reported = "none"

\* main() is done after the contaminant search reported a solution: the
\* full search was not started.
C30_Witness ==
    /\ main_pc = "Done" /\ Len(started) = 2
    /\ started[1].reported = "none" /\ started[2].reported = "found"

\* The candidates whose anomalous-difference search was run and failed:
\* their three files are there, the data are anomalous and the search
\* ended with one of the two errors.
HasMrFiles(c) == mr_files[c].mr_log /\ mr_files[c].ref_log /\ mr_files[c].pdbout
AnodeFailed == {c \in Range(candidates) :
                   HasMrFiles(c) /\ anomalous_data_present /\ anode[c] # "ok"}
\* The record of candidate c in the result set holds the placement and
\* refinement metrics its files hold.
MrRecordOf(c) ==
    {k \in 1..Len(search_results) :
        LET r == search_results[k]
            f == mr_files[c]
        IN /\ r.pdb_code = c
           /\ r.final_r_fact = Some(f.final_r_fact)
           /\ r.final_r_free = Some(f.final_r_free)
           /\ IF mr_program = "phaser"
              THEN r.phaser_llg = Some(f.llg) /\ r.phaser_tfz = Some(f.tfz)
              ELSE r.molrep_score = Some(f.llg) /\ r.molrep_tfscore = Some(f.tfz)}

\* C31: when the anomalous-difference search of a candidate fails with
\* RuntimeError or PyJobExecutionError, submit_jobs still ends normally:
\* the candidate has its record in the result set, with its placement and
\* refinement metrics and no anomalous metrics, and every other candidate
\* whose files are there has its record too.
C31_AnodeFailureNotFatal ==
    (stage = "mr" /\ pc \in {"Done", "Error"} /\ dispatched # <<>> /\ AnodeFailed # {}) =>
        /\ pc = "Done"
        /\ \A c \in Range(candidates) : HasMrFiles(c) => MrRecordOf(c) # {}
        /\ \A c \in AnodeFailed : \A k \in MrRecordOf(c) :
              /\ search_results[k].dano_peak_height = None
              /\ search_results[k].nearest_atom = None
\* The search of the first candidate failed and the second candidate was
\* scored after it, with its anomalous metrics.
C31_Witness ==
    /\ stage = "mr" /\ pc = "Done" /\ Len(candidates) >= 2
    /\ candidates[1] \in AnodeFailed
    /\ anode[candidates[2]] = "ok"
    /\ \E k \in MrRecordOf(candidates[2]) : search_results[k].dano_peak_height # None
    /\ MrRecordOf(candidates[1]) # {}

\* The follow-up replacement run of candidate c left confirmed evidence:
\* a refinement log with R-factor and R-free below 0.45, or, with phaser as
\* the engine, a placement log with LLG above 120 and TFZ above 8.
FollowUpEvidence(f) ==
    \/ f.ref_log /\ f.final_r_fact < RThreshold /\ f.final_r_free < RThreshold
    \/ mr_program = "phaser" /\ f.mr_log /\ f.llg > LlgThreshold /\ f.tfz > TfzThreshold

\* C32: in the rotation stage the solution flag becomes True only in a
\* callback on the log of a trial whose primary Z-score is above 10 and
\* whose follow-up replacement run left confirmed evidence; whenever the
\* callback returns True (cancellation is requested) the flag is set; and
\* a flag that is set stays set.
C32_SolutionOnEvidence ==
    [][stage = "rot" =>
         /\ solution => solution'
         /\ (cancel' /\ ~cancel) => solution'
         /\ (solution' /\ ~solution) =>
               \E c \in InBatch :
                  /\ status[c] = "done" /\ called'[c]
                  /\ IsSome(log[c]) /\ IsSome(log[c][1]) /\ log[c][1][1] > RotZThreshold
                  /\ FollowUpEvidence(mr_files'[c])
                  /\ cancel']_vars
\* The flag was raised on the phaser predicate alone: the follow-up run of
\* the successful trial wrote no refinement log.
C32_Witness ==
    /\ stage = "rot" /\ solution /\ pc = "Done"
    /\ \E c \in succeeded : ~mr_files[c].ref_log /\ mr_files[c].mr_log

\* C33: the rotation-stage callback starts the follow-up replacement run
\* at most once per candidate code: whatever calls of rot_succeeded_log
\* were made, repeated ones for the same log included, 'tested' holds no
\* code twice and as many follow-up runs were started as it has entries.
C33_TestedOnce ==
    stage = "rot" =>
        /\ \A j, k \in 1..Len(tested) : tested[j] = tested[k] => j = k
        /\ Len(followups) = Len(tested)
        /\ \A j, k \in 1..Len(followups) : followups[j] = followups[k] => j = k
\* Two candidates had their follow-up run, and the callback may be called
\* again on the log of either.
C33_Witness ==
    /\ stage = "rot" /\ pc = "AwaitingCompletion" /\ ~cancel
    /\ Len(tested) >= 2
    /\ \A k \in 1..Len(tested) :
          /\ called[tested[k]] /\ status[tested[k]] = "done"
          /\ _rot_job_succeeded(log[tested[k]][1])

\* C34: every call of run() starts with early termination not signalled,
\* and a chunk is skipped only if a trial dispatched by this same call
\* satisfied the success callback; also in a call that follows one which
\* found a solution.  'dispatched' and 'succeeded' hold the chunks and the
\* successful trials of the call in progress.
C34_RunStartsUnsignalled ==
    stage = "rot" =>
        /\ pc = "Start" => ~solution
        /\ (pc = "Ready" /\ cycle_i < n_files /\ solution) =>
              \E c \in succeeded : \E k \in 1..Len(dispatched) : c \in Range(dispatched[k].cands)

\* C35: when run() has ended, every trial of a dispatched chunk whose log
\* holds a defined primary Z-score, zero and negative values included, has
\* exactly one record in the rotation result set (self._search_results,
\* which search_results truncates later).
C35_DefinedZScored ==
    (stage = "rot" /\ pc = "Done") =>
        \A k \in 1..Len(DispatchedCands) :
            LET c == DispatchedCands[k]
            IN HasZ(c) => Cardinality({j \in 1..Len(search_results) :
                                          search_results[j].pdb_code = c}) = 1

\* C36: a refine_program name the setter accepted, in whatever letter
\* case, can be used afterwards: refine_python_module resolves without
\* error, and the refinement_type flag is added to the refinement command
\* exactly when the accepted program is refmac5.
C36_AcceptedNameUsable ==
    (stage = "mr" /\ pc \notin {"New", "ConfigError"}) =>
        /\ ~refine_python_module(refine_program).raised
        /\ AddsRefinementType(refine_program) <=> (Lower(args.refine_program) = "refmac5")

\* C37: submit_jobs called with an empty candidate list (no existing
\* solution, then) raises no error, and when it has returned the result
\* set is the empty sequence.
C37_EmptyListNormal ==
    (stage = "mr" /\ candidates = <<>>) =>
        /\ pc # "Error"
        /\ pc = "Done" => search_results = <<>>

\* C38: the callback attributes each log to its own candidate: the
\* catalogue file selected for the score record is the file of the
\* candidate whose code is in the log's name, whatever the catalogue, also
\* when one code occurs inside the path of another candidate's file.
C38_OwnDatModel ==
    (call # <<>> /\ call.op = "dat_model" /\ ret # <<>>) =>
        ret[1] = DatPath(call.dir, call.codes[call.k])

=============================================================================
